---------------------------- MODULE Spec2Model ----------------------------
(***************************************************************************)
(* A model of victor, a small vector database: the storage abstraction     *)
(* (src/src/filesystem), the packed-vector codec (src/src/packed_vector.rs)*)
(* the similarity kernel (src/src/similarity.rs), the index and shard      *)
(* routing and the engine (src/src/db.rs).                                 *)
(*                                                                         *)
(* Files are sequences of cells, one cell per byte of the bincode layout.  *)
(* A cell is an integer.  An f32 takes four cells; since TLC has no        *)
(* floating point, the first two cells carry the value as an exact         *)
(* fraction (numerator, denominator) and the other two are 0.  f32         *)
(* arithmetic is modelled by exact rational arithmetic, with NaN and the   *)
(* two infinities as distinguished values (denominator 0).                 *)
(***************************************************************************)
EXTENDS Integers, Sequences, FiniteSets, TLC

VARIABLES
    backend,   \* which DirectoryHandle implementation the engine runs on
    dir,       \* the database directory: file name -> sequence of cells
    nextUuid,  \* the next value Uuid::new_v4() hands out
    inserts,   \* how many times add_embedding_many has been called
    added,     \* history: uuid -> what the caller supplied for it
    failed,    \* history: some operation so far ended in a panic or an Err
    last,      \* the last public operation, its arguments and what it returned
    entries,   \* memory.rs, the directory's HashMap: file name -> its buffer
    streams,   \* memory.rs, the buffers allocated so far (Rc<RefCell<Vec<u8>>>)
    handles,   \* memory.rs, the FileHandles and WritableFileStreams handed out
    epoch,     \* history: file name -> how many entries of that name were removed
    call,      \* the last storage call on those objects and what it returned
    codec      \* packed_vector.rs: a vector and what pack and unpack made of it

engine == <<backend, dir, nextUuid, inserts, added, failed, last>>

storage == <<entries, streams, handles, epoch, call>>

vars == <<engine, storage, codec>>

----------------------------------------------------------------------------
(* Bounds of the model. *)

\* add_embedding_many is called at most this many times in a behaviour.
MaxInserts == 2

\* Largest top_n a search is issued with.
MaxTopN == 2

----------------------------------------------------------------------------
(* Rational numbers <<n, d>> with d > 0, in lowest terms.  The non-finite  *)
(* f32 values have d = 0: +infinity is <<1, 0>>, -infinity is <<-1, 0>> and *)
(* NaN is <<0, 0>>.  The two zeros of f32 are one value.                    *)

RECURSIVE Gcd(_, _)
Gcd(a, b) == IF b = 0 THEN a ELSE Gcd(b, a % b)

Abs(x) == IF x < 0 THEN -x ELSE x

Sign(n) == IF n < 0 THEN -1 ELSE IF n > 0 THEN 1 ELSE 0

NaN == <<0, 0>>

INFINITY == <<1, 0>>

NEG_INFINITY == <<-1, 0>>

IsNaN(x) == x[1] = 0 /\ x[2] = 0

IsInfinite(x) == x[1] # 0 /\ x[2] = 0

\* n / d with the common divisor g taken out and the sign in the numerator.
RReduce(n, d, g) ==
    IF d < 0 THEN <<(0 - n) \div g, (0 - d) \div g>> ELSE <<n \div g, d \div g>>

\* n / 0 is an infinity of the sign of n, and 0 / 0 is NaN.
RNorm(n, d) == IF d = 0 THEN <<Sign(n), 0>> ELSE RReduce(n, d, Gcd(Abs(n), Abs(d)))

R(i) == <<i, 1>>

RNeg(x) == <<0 - x[1], x[2]>>

\* inf + inf = inf, inf + (-inf) = NaN, inf + finite = inf.
RAdd(x, y) == IF IsNaN(x) \/ IsNaN(y) THEN NaN
              ELSE IF IsInfinite(x) THEN (IF IsInfinite(y) /\ y # x THEN NaN ELSE x)
              ELSE IF IsInfinite(y) THEN y
              ELSE RNorm(x[1] * y[2] + y[1] * x[2], x[2] * y[2])

RSub(x, y) == IF IsNaN(x) \/ IsNaN(y) THEN NaN
              ELSE IF IsInfinite(x) \/ IsInfinite(y) THEN RAdd(x, RNeg(y))
              ELSE RNorm(x[1] * y[2] - y[1] * x[2], x[2] * y[2])

\* inf * 0 = NaN, inf * x = inf of the product's sign.
RMul(x, y) == IF IsNaN(x) \/ IsNaN(y) THEN NaN
              ELSE RNorm(x[1] * y[1], x[2] * y[2])

\* x / y in f32: 0/0 and inf/inf are NaN, a non-zero value over zero is an
\* infinity, a finite value over an infinity is zero.
RDiv(x, y) == IF IsNaN(x) \/ IsNaN(y) THEN NaN
              ELSE IF IsInfinite(y) THEN (IF IsInfinite(x) THEN NaN ELSE R(0))
              ELSE IF y[1] = 0 THEN <<Sign(x[1]), 0>>
              ELSE IF IsInfinite(x) THEN <<x[1] * Sign(y[1]), 0>>
              ELSE RNorm(x[1] * y[2], x[2] * y[1])

\* IEEE comparisons: every comparison with a NaN is false.
RLt(x, y) == /\ ~IsNaN(x)
             /\ ~IsNaN(y)
             /\ IF x[2] = 0 /\ y[2] = 0 THEN x[1] < y[1]
                ELSE x[1] * y[2] < y[1] * x[2]

RGt(x, y) == RLt(y, x)

RLe(x, y) == /\ ~IsNaN(x)
             /\ ~IsNaN(y)
             /\ IF x[2] = 0 /\ y[2] = 0 THEN x[1] <= y[1]
                ELSE x[1] * y[2] <= y[1] * x[2]

\* f32::min / f32::max as used by fold: a NaN operand is ignored.
RMin(x, y) == IF IsNaN(x) THEN y ELSE IF IsNaN(y) THEN x
              ELSE IF RLt(y, x) THEN y ELSE x

RMax(x, y) == IF IsNaN(x) THEN y ELSE IF IsNaN(y) THEN x
              ELSE IF RLt(x, y) THEN y ELSE x

\* f32 == on vectors (PartialEq of Vec<f32>): a NaN equals nothing.
VecEq(a, b) ==
    /\ Len(a) = Len(b)
    /\ \A i \in 1..Len(a) : ~IsNaN(a[i]) /\ a[i] = b[i]

\* f32::round of a non-negative value: half away from zero.
RRound(x) == (2 * x[1] + x[2]) \div (2 * x[2])

RECURSIVE SumSeq(_)
SumSeq(s) == IF s = <<>> THEN R(0) ELSE RAdd(Head(s), SumSeq(Tail(s)))

\* A vector of integers as a vector of f32.
VecOf(s) == [i \in 1..Len(s) |-> R(s[i])]

----------------------------------------------------------------------------
(* bincode layouts.  Strings are sequences of character codes. *)

RECURSIVE Zeros(_)
Zeros(n) == IF n = 0 THEN <<>> ELSE <<0>> \o Zeros(n - 1)

\* Little-endian fixed-width integers.
RECURSIVE LeBytes(_, _)
LeBytes(n, width) ==
    IF width = 0 THEN <<>> ELSE <<n % 256>> \o LeBytes(n \div 256, width - 1)

RECURSIVE LeValue(_)
LeValue(cells) ==
    IF cells = <<>> THEN 0 ELSE Head(cells) + 256 * LeValue(Tail(cells))

\* A record size that counts the 4 cells of the header as well.
SerU32WithHeader(n) == LeBytes(n + 4, 4)

SerU32(n) == LeBytes(n, 4)

SerU64(n) == LeBytes(n, 8)

SerF32(x) == <<x[1], x[2], 0, 0>>

DeF32(cells) == <<cells[1], cells[2]>>

\* Uuid serializes as a byte slice: a u64 length (16) and the 16 bytes.
SerUuid(u) == SerU64(16) \o <<u>> \o Zeros(15)

SerString(s) == SerU64(Len(s)) \o s

RECURSIVE Flatten(_)
Flatten(ss) == IF ss = <<>> THEN <<>> ELSE Head(ss) \o Flatten(Tail(ss))

Slice(s, from, to) == IF to < from THEN <<>> ELSE SubSeq(s, from, to)

\* Readers take the cells and the position of the first unread cell and
\* return [ok, val, pos]; ok is FALSE when the cells run out.
Bad == [ok |-> FALSE, val |-> 0, pos |-> 0]

\* The u64 in the 8 cells from pos.
U64At(cells, pos) == LeValue(SubSeq(cells, pos, pos + 7))

ReadF32(cells, pos) ==
    IF pos + 3 > Len(cells) THEN Bad
    ELSE [ok |-> TRUE, val |-> DeF32(SubSeq(cells, pos, pos + 3)), pos |-> pos + 4]

\* The n cells from position from.
TakeBytes(cells, from, n) ==
    IF from + n - 1 > Len(cells) THEN Bad
    ELSE [ok |-> TRUE, val |-> Slice(cells, from, from + n - 1), pos |-> from + n]

\* A String or a Vec<u8>: a u64 length and the bytes.
ReadBytes(cells, pos) ==
    IF pos + 7 > Len(cells) THEN Bad ELSE TakeBytes(cells, pos + 8, U64At(cells, pos))

\* A Uuid: the u64 length 16 and the 16 bytes, the first of which carries
\* the uuid.
ReadUuid(cells, pos) ==
    IF pos + 23 > Len(cells) THEN Bad
    ELSE IF U64At(cells, pos) # 16 THEN Bad
    ELSE [ok |-> TRUE, val |-> cells[pos + 8], pos |-> pos + 24]

\* n values read one after the other by Read(cells, pos).
RECURSIVE ReadMany(_, _, _, _)
ReadMany(Read(_, _), cells, pos, n) ==
    IF n = 0 THEN [ok |-> TRUE, val |-> <<>>, pos |-> pos]
    ELSE LET x == Read(cells, pos)
         IN  IF ~x.ok THEN Bad
             ELSE LET rest == ReadMany(Read, cells, x.pos, n - 1)
                  IN  IF ~rest.ok THEN Bad
                      ELSE [ok |-> TRUE, val |-> <<x.val>> \o rest.val,
                            pos |-> rest.pos]

\* A Vec / HashSet / BTreeSet / HashMap: a u64 count and the elements.
ReadSeq(Read(_, _), cells, pos) ==
    IF pos + 7 > Len(cells) THEN Bad ELSE ReadMany(Read, cells, pos + 8, U64At(cells, pos))

Range(s) == {s[i] : i \in 1..Len(s)}

\* Lexicographic order on strings (and on sequences of naturals).
RECURSIVE StrLess(_, _)
StrLess(a, b) ==
    IF b = <<>> THEN FALSE
    ELSE IF a = <<>> THEN TRUE
    ELSE IF Head(a) # Head(b) THEN Head(a) < Head(b)
    ELSE StrLess(Tail(a), Tail(b))

\* The elements of a set of strings in ascending order (BTreeSet iteration,
\* Vec::sort).
RECURSIVE SortedStrings(_)
SortedStrings(S) ==
    IF S = {} THEN <<>>
    ELSE LET m == CHOOSE x \in S : \A y \in S \ {x} : StrLess(x, y)
         IN  <<m>> \o SortedStrings(S \ {m})

----------------------------------------------------------------------------
(* The packed-vector codec. *)

\* vector.iter().cloned().fold(f32::INFINITY, f32::min)
RECURSIVE FoldMin(_)
FoldMin(v) == IF v = <<>> THEN INFINITY ELSE RMin(FoldMin(Tail(v)), v[1])

\* vector.iter().cloned().fold(f32::NEG_INFINITY, f32::max)
RECURSIVE FoldMax(_)
FoldMax(v) == IF v = <<>> THEN NEG_INFINITY ELSE RMax(FoldMax(Tail(v)), v[1])

\* (normalized * 255.0).round().clamp(0.0, 255.0) as u8; NaN as u8 is 0.
Quantised(scaled) ==
    IF IsNaN(scaled) THEN 0
    ELSE IF scaled[1] < 0 THEN 0
    ELSE IF IsInfinite(scaled) THEN 255
    ELSE IF RRound(scaled) > 255 THEN 255
    ELSE RRound(scaled)

\* normalized = (value - min) / (max - min), then scaled by 255.
PackByte(value, min, max) ==
    Quantised(RMul(RDiv(RSub(value, min), RSub(max, min)), R(255)))

\* min and max are the folds from +infinity and -infinity.
pack(vector) ==
    LET min == FoldMin(vector)
        max == FoldMax(vector)
    IN  [data |-> [i \in 1..Len(vector) |-> PackByte(vector[i], min, max)],
         min  |-> min,
         max  |-> max]

unpack(p) ==
    [i \in 1..Len(p.data) |->
        RAdd(p.min, RMul(RDiv(R(p.data[i]), R(255)), RSub(p.max, p.min)))]

\* bincode of PackedVector {data: Vec<u8>, min: f32, max: f32}.
SerPacked(p) == SerU64(Len(p.data)) \o p.data \o SerF32(p.min) \o SerF32(p.max)

\* A PackedVector whose data d has been read: min and max follow.
PackedOf(cells, d) ==
    IF ~d.ok THEN Bad
    ELSE IF d.pos + 7 > Len(cells) THEN Bad
    ELSE [ok |-> TRUE,
          val |-> [data |-> d.val,
                   min  |-> DeF32(SubSeq(cells, d.pos, d.pos + 3)),
                   max  |-> DeF32(SubSeq(cells, d.pos + 4, d.pos + 7))],
          pos |-> d.pos + 8]

ReadPacked(cells, pos) == PackedOf(cells, ReadBytes(cells, pos))

\* bincode of Embedding {id, vector}: the vector goes through the codec.
SerEmbedding(e) == SerUuid(e.id) \o SerPacked(pack(e.vector))

\* An Embedding whose id has been read, from its packed vector p.
EmbeddingOf(id, p) ==
    IF ~p.ok THEN Bad
    ELSE [ok |-> TRUE, val |-> [id |-> id, vector |-> unpack(p.val)], pos |-> p.pos]

ReadEmbedding(cells, pos) ==
    IF ~ReadUuid(cells, pos).ok THEN Bad
    ELSE EmbeddingOf(ReadUuid(cells, pos).val,
                     ReadPacked(cells, ReadUuid(cells, pos).pos))

----------------------------------------------------------------------------
(* The similarity kernel.  A score is kept as a strictly increasing function *)
(* of the f32 the code computes (the square root and the division by the     *)
(* norms cannot be taken exactly): for cosine sign(dot) * dot^2 / (|a|^2     *)
(* |b|^2), for euclidean the sum of the squared differences.  Scores of the  *)
(* same kind compare as the code's f32 values do; cosine of a zero vector is *)
(* 0/0 = NaN.                                                                *)

Dot(v1, v2) == SumSeq([i \in 1..Len(v1) |-> RMul(v1[i], v2[i])])

LengthMismatch == [ok |-> FALSE, val |-> NaN]

\* sign(dot) * dot^2 / (|v1|^2 |v2|^2) from the dot product and the squared
\* norms.
SignedSquare(dot_product, v1_norm, v2_norm) ==
    RDiv(IF dot_product[1] < 0 THEN RSub(R(0), RMul(dot_product, dot_product))
         ELSE RMul(dot_product, dot_product),
         RMul(v1_norm, v2_norm))

cosine(v1, v2) ==
    IF Len(v1) # Len(v2) THEN LengthMismatch
    ELSE [ok |-> TRUE, val |-> SignedSquare(Dot(v1, v2), Dot(v1, v1), Dot(v2, v2))]

SquaredNorm(v) == Dot(v, v)

euclidean(v1, v2) ==
    IF Len(v1) # Len(v2) THEN LengthMismatch
    ELSE [ok |-> TRUE, val |-> SquaredNorm([i \in 1..Len(v1) |-> RSub(v1[i], v2[i])])]

----------------------------------------------------------------------------
(* The storage abstraction.  A directory is a function from the names of    *)
(* its entries to their cells.  Backends: "memory" (filesystem/memory.rs),  *)
(* "native" (filesystem/native.rs), "web" (filesystem/web.rs, the only      *)
(* backend of a wasm32 build).                                              *)

Backends == {"memory", "native", "web"}

IndexBin == <<"index.bin", <<>>>>

ContentBin == <<"content.bin", <<>>>>

EigenBin == <<"eigen.bin", <<>>>>

Exists(d, name) == name \in DOMAIN d

Put(d, name, cells) ==
    [n \in DOMAIN d \cup {name} |-> IF n = name THEN cells ELSE d[n]]

\* An open that creates the file whatever the option says.
OpenCreating(d, name, create) ==
    IF Exists(d, name) THEN [ok |-> TRUE, dir |-> d]
    ELSE [ok |-> TRUE, dir |-> Put(d, name, <<>>)]

\* DirectoryHandle::get_file_handle_with_options: [ok, dir].
get_file_handle_with_options(d, name, create) ==
    IF Exists(d, name) THEN [ok |-> TRUE, dir |-> d]
    ELSE IF create THEN [ok |-> TRUE, dir |-> Put(d, name, <<>>)]
    ELSE [ok |-> FALSE, dir |-> d]

\* A removal that reports success and leaves the entry where it is.
RemoveKept(b, d, name) == [ok |-> TRUE, dir |-> d]

\* DirectoryHandle::remove_entry: [ok, dir].  The in-memory map drops the
\* entry and is silent on absence; the others report the absence.
remove_entry(b, d, name) ==
    IF Exists(d, name) THEN [ok |-> TRUE, dir |-> [n \in DOMAIN d \ {name} |-> d[n]]]
    ELSE [ok |-> b = "memory", dir |-> d]

\* A writer that keeps the existing data whatever the option says.
KeepAlways(cells, keep_existing_data) == cells

\* FileHandle::create_writable_with_options: the cells the file holds once
\* the writer is open (its cursor is 0).
create_writable_with_options(cells, keep_existing_data) ==
    IF keep_existing_data THEN cells ELSE <<>>

\* A write that overwrites in place on every backend.
WriteInPlace(b, cells, cursor_pos, data) ==
    Slice(cells, 1, cursor_pos) \o data
    \o Slice(cells, cursor_pos + Len(data) + 1, Len(cells))

\* WritableFileStream::write_at_cursor_pos: the cells after the write.  The
\* in-memory stream keeps the cells before the cursor and appends the data;
\* a file of the other backends is overwritten in place.
write_at_cursor_pos(b, cells, cursor_pos, data) ==
    IF b = "memory" THEN Slice(cells, 1, cursor_pos) \o data
    ELSE Slice(cells, 1, cursor_pos) \o data
         \o Slice(cells, cursor_pos + Len(data) + 1, Len(cells))

\* A seek that succeeds wherever it is sent.
SeekAnywhere(b, cells, offset) == TRUE

\* WritableFileStream::seek: whether the seek succeeds.
seek(b, cells, offset) == b # "memory" \/ offset <= Len(cells)

----------------------------------------------------------------------------
(* Index and shard routing.  An index is a set of tag-sets; a tag-set is a  *)
(* set of strings.                                                          *)

\* One file name for every tag-set.
OneFilename(tags) == <<"sha256", <<>>>>

\* sha256 of the Debug format of the sorted tags, taken to be injective.
filename_for_tags(tags) == <<"sha256", SortedStrings(tags)>>

\* bincode of a sequence: a u64 count and the serialized elements.
SerVec(items) == SerU64(Len(items)) \o Flatten(items)

SerTagSet(tags) ==
    SerVec([i \in 1..Cardinality(tags) |-> SerString(SortedStrings(tags)[i])])

\* bincode of Index {files: HashSet<BTreeSet<String>>}.  A HashSet iterates
\* in an unspecified order; the model writes the tag-sets in ascending order
\* of their serialization.
SerIndex(files) == SerVec(SortedStrings({SerTagSet(t) : t \in files}))

\* A value read as a sequence, as the set of its elements.
AsSet(r) == IF ~r.ok THEN Bad ELSE [ok |-> TRUE, val |-> Range(r.val), pos |-> r.pos]

ReadTagSet(cells, pos) == AsSet(ReadSeq(ReadBytes, cells, pos))

\* [ok, val, pos], val the set of tag-sets.
DeIndex(cells) == AsSet(ReadSeq(ReadTagSet, cells, 1))

\* Index::load once index.bin is open: [st, dir, index].  An empty file is
\* the empty index.
Loaded(d, parsed) ==
    IF Len(d[IndexBin]) = 0 THEN [st |-> "ok", dir |-> d, index |-> {}]
    ELSE IF ~parsed.ok THEN [st |-> "panic", dir |-> d, index |-> {}]
    ELSE [st |-> "ok", dir |-> d, index |-> parsed.val]

\* A load that writes the serialized empty index into an index.bin it creates.
LoadWriting(d) ==
    Loaded(Put(d, IndexBin, IF Exists(d, IndexBin) THEN d[IndexBin] ELSE SerIndex({})),
           DeIndex(IF Exists(d, IndexBin) THEN d[IndexBin] ELSE SerIndex({})))

\* Index::load: [st, dir, index].  index.bin is created when absent.
load(d) ==
    Loaded(get_file_handle_with_options(d, IndexBin, TRUE).dir,
           DeIndex(get_file_handle_with_options(d, IndexBin, TRUE).dir[IndexBin]))

\* Index::file_handle_for_tag: the directory once the handle is open.
file_handle_for_tag(d, tags) ==
    get_file_handle_with_options(d, filename_for_tags(tags), TRUE).dir

\* The shard opened without its tag-set being added to the index.
ExactFileUnlisted(b, l, tags) ==
    IF l.st # "ok" THEN [st |-> l.st, dir |-> l.dir]
    ELSE [st |-> "ok", dir |-> file_handle_for_tag(l.dir, tags)]

\* Index::get_exact_db_file once the index l is loaded: [st, dir].  An index
\* that lacks the tag-set is rewritten with it.
ExactFile(b, l, tags) ==
    IF l.st # "ok" THEN [st |-> l.st, dir |-> l.dir]
    ELSE IF tags \notin l.index
         THEN [st |-> "ok",
               dir |-> file_handle_for_tag(
                           Put(l.dir, IndexBin,
                               write_at_cursor_pos(
                                   b, create_writable_with_options(l.dir[IndexBin], FALSE),
                                   0, SerIndex(l.index \cup {tags}))),
                           tags)]
    ELSE [st |-> "ok", dir |-> file_handle_for_tag(l.dir, tags)]

\* Index::get_exact_db_file: [st, dir].
get_exact_db_file(b, d, tag_list) == ExactFile(b, load(d), Range(tag_list))

RECURSIVE OpenAll(_, _)
OpenAll(d, files) ==
    IF files = {} THEN d
    ELSE LET t == CHOOSE x \in files : TRUE
         IN  OpenAll(file_handle_for_tag(d, t), files \ {t})

\* The filter turned around: the shards whose tag-set the query contains.
is_subset(file_tags, tags) == file_tags \subseteq tags

\* BTreeSet::is_superset, the filter of get_matching_db_files.
is_superset(file_tags, tags) == tags \subseteq file_tags

\* Index::get_matching_db_files once the index l is loaded.
MatchingFiles(l, tags) ==
    IF l.st # "ok" THEN [st |-> l.st, dir |-> l.dir, files |-> {}]
    ELSE [st |-> "ok",
          dir |-> OpenAll(l.dir, {file_tags \in l.index : is_superset(file_tags, tags)}),
          files |-> {file_tags \in l.index : is_superset(file_tags, tags)}]

\* Index::get_matching_db_files: [st, dir, files], files the tag-sets whose
\* shard is handed back.
get_matching_db_files(d, tags) == MatchingFiles(load(d), tags)

\* Index::get_all_db_filenames once the index l is loaded.
AllFilenames(l) ==
    [st |-> l.st, dir |-> l.dir, files |-> {filename_for_tags(t) : t \in l.index}]

\* Index::get_all_db_filenames: [st, dir, files].
get_all_db_filenames(d) == AllFilenames(load(d))

\* All the orders in which a HashSet may be iterated.
Orders(S) ==
    {o \in [1..Cardinality(S) -> S] : \A i, j \in 1..Cardinality(S) : o[i] = o[j] => i = j}

----------------------------------------------------------------------------
(* Decomposition.  A matrix is the sequence of its rows. *)

\* k of project_to_lower_dimension(prev_embeddings, 500), scaled down with
\* the vectors of the model (which have 1 or 2 elements, not 500 or more).
ReducedDim == 1

\* The shard size above which an insert fits the projection (1000000 in the
\* source), scaled down with the shards of the model: a shard of two records
\* is above it, a shard of one record is not.
FitThreshold == 50

\* embeddings_to_dmatrix: [st, rows].  Indexing embeddings[0] panics on an
\* empty list; from_row_slice panics unless the flattened data has
\* nrows * ncols elements, and otherwise cuts it into rows of ncols.
embeddings_to_dmatrix(embeddings) ==
    IF Len(embeddings) = 0 THEN [st |-> "panic", rows |-> <<>>]
    ELSE LET nrows == Len(embeddings)
             ncols == Len(embeddings[1])
             data  == Flatten(embeddings)
         IN  IF Len(data) # nrows * ncols THEN [st |-> "panic", rows |-> <<>>]
             ELSE [st |-> "ok",
                   rows |-> [r \in 1..nrows |->
                               SubSeq(data, (r - 1) * ncols + 1, r * ncols)]]

ColumnMeans(rows) ==
    [c \in 1..Len(rows[1]) |->
        RDiv(SumSeq([r \in 1..Len(rows) |-> rows[r][c]]), R(Len(rows)))]

\* center_data: [centered, means].
center_data(rows) ==
    LET means == ColumnMeans(rows)
    IN  [centered |-> [r \in 1..Len(rows) |->
                         [c \in 1..Len(rows[r]) |-> RSub(rows[r][c], means[c])]],
         means |-> means]

\* A DMatrix as bincode writes it: [data, nrows, ncols], data column-major.
MatAt(m, row, col) == m.data[(col - 1) * m.nrows + row]

\* rows * m: [st, rows]; nalgebra panics on a dimension mismatch.
MatMul(rows, m) ==
    IF \E r \in 1..Len(rows) : Len(rows[r]) # m.nrows
    THEN [st |-> "panic", rows |-> <<>>]
    ELSE [st |-> "ok",
          rows |-> [r \in 1..Len(rows) |->
                      [c \in 1..m.ncols |->
                         SumSeq([j \in 1..m.nrows |-> RMul(rows[r][j], MatAt(m, j, c))])]]]

\* The eigenvectors of the covariance matrix are not rational in general.
\* The model lets symmetric_eigen and the sort return any k distinct
\* coordinate axes as the top k eigenvectors.
TopEigenvectors(ncols, k) ==
    {[data |-> Flatten([c \in 1..k |-> [j \in 1..ncols |-> IF j = axes[c] THEN R(1) ELSE R(0)]]),
      nrows |-> ncols, ncols |-> k] :
        axes \in {a \in [1..k -> 1..ncols] : \A i, j \in 1..k : a[i] = a[j] => i = j}}

\* project_to_lower_dimension: the set of [st, eigen, means] it may return.
\* columns(0, k) panics when the matrix has fewer than k columns.
project_to_lower_dimension(data, k) ==
    LET m == embeddings_to_dmatrix([i \in 1..Len(data) |-> data[i].vector])
        nothing == [data |-> <<>>, nrows |-> 0, ncols |-> 0]
    IN  IF m.st # "ok" THEN {[st |-> "panic", eigen |-> nothing, means |-> <<>>]}
        ELSE IF Len(m.rows[1]) < k THEN {[st |-> "panic", eigen |-> nothing, means |-> <<>>]}
        ELSE {[st |-> "ok", eigen |-> e, means |-> center_data(m.rows).means] :
                 e \in TopEigenvectors(Len(m.rows[1]), k)}

SerF32s(v) == SerVec([i \in 1..Len(v) |-> SerF32(v[i])])

\* bincode of VectorProjection {eigen: DMatrix<f32>, means: Vec<f32>}.
SerProjection(vp) ==
    SerF32s(vp.eigen.data) \o SerU64(vp.eigen.nrows) \o SerU64(vp.eigen.ncols)
    \o SerF32s(vp.means)

NoProjection ==
    [ok |-> FALSE, eigen |-> [data |-> <<>>, nrows |-> 0, ncols |-> 0], means |-> <<>>]

\* A VectorProjection from its fields as read; a DMatrix has nrows * ncols
\* elements.
ProjectionOf(data, nrows, ncols, means) ==
    IF ~means.ok THEN NoProjection
    ELSE IF Len(data) # nrows * ncols THEN NoProjection
    ELSE [ok |-> TRUE, eigen |-> [data |-> data, nrows |-> nrows, ncols |-> ncols],
          means |-> means.val]

\* A VectorProjection whose matrix data d has been read: nrows, ncols and
\* the means follow.
ProjectionAfter(cells, d) ==
    IF ~d.ok THEN NoProjection
    ELSE IF d.pos + 15 > Len(cells) THEN NoProjection
    ELSE ProjectionOf(d.val, U64At(cells, d.pos), U64At(cells, d.pos + 8),
                      ReadSeq(ReadF32, cells, d.pos + 16))

DeProjection(cells) == ProjectionAfter(cells, ReadSeq(ReadF32, cells, 1))

----------------------------------------------------------------------------
(* The engine: reading shards, projecting, inserting. *)

\* cfg!(target_arch = "wasm32"): the web backend is the wasm32 build's.
Wasm32(b) == b = "web"

NoEmbeddings == [st |-> "panic", embeddings |-> <<>>]

\* The deserialized chunks of a shard: [st, embeddings].  A chunk that does
\* not deserialize panics.
Collected(chunks) ==
    IF \E i \in 1..Len(chunks) : ~chunks[i].ok THEN NoEmbeddings
    ELSE [st |-> "ok", embeddings |-> [i \in 1..Len(chunks) |-> chunks[i].val]]

\* The content of a shard behind its header, in chunks of embedding_size.
\* The sanity check panics, as does its remainder by a zero embedding_size.
Chunked(file_content, embedding_size) ==
    IF embedding_size = 0 THEN NoEmbeddings
    ELSE IF Len(file_content) % embedding_size # 0 THEN NoEmbeddings
    ELSE Collected([i \in 1..(Len(file_content) \div embedding_size) |->
                      ReadEmbedding(SubSeq(file_content, (i - 1) * embedding_size + 1,
                                           i * embedding_size), 1)])

\* Victor::get_embeddings_by_file: [st, embeddings].  The header is 4 cells;
\* slicing it off a shorter file panics.
get_embeddings_by_file(file) ==
    IF Len(file) < 4 THEN NoEmbeddings
    ELSE Chunked(Slice(file, 4 + 1, Len(file)), LeValue(SubSeq(file, 1, 4)))

NoVector == [st |-> "panic", vector |-> <<>>]

\* The row of a one-row product.
FirstRow(product) ==
    IF product.st # "ok" THEN NoVector ELSE [st |-> "ok", vector |-> product.rows[1]]

\* project_single_vector once eigen.bin is deserialized.  zip stops at the
\* shorter of the vector and the means.
Centered(vector, vp) ==
    IF ~vp.ok THEN NoVector
    ELSE FirstRow(MatMul(<<[i \in 1..(IF Len(vector) < Len(vp.means) THEN Len(vector)
                                     ELSE Len(vp.means)) |->
                              RSub(vector[i], vp.means[i])]>>,
                         vp.eigen))

\* Victor::project_single_vector: [st, vector].
project_single_vector(vector, eigen_file) == Centered(vector, DeProjection(eigen_file))

\* Victor::write_projection: the directory with eigen.bin rewritten.
write_projection(b, d, vector_projection) ==
    Put(get_file_handle_with_options(d, EigenBin, TRUE).dir, EigenBin,
        write_at_cursor_pos(
            b,
            create_writable_with_options(
                get_file_handle_with_options(d, EigenBin, TRUE).dir[EigenBin], FALSE),
            0, SerProjection(vector_projection)))

\* A rewrite that keeps the first record of the shard only.
RewrittenShort(b, d, name, embeddings, projected_data) ==
    IF projected_data.st # "ok" THEN [st |-> "panic", dir |-> d]
    ELSE [st |-> "ok",
          dir |-> Put(d, name,
                      write_at_cursor_pos(
                          b, create_writable_with_options(d[name], FALSE), 0,
                          SerU32(Len(SerEmbedding([id |-> embeddings[1].id,
                                                   vector |-> projected_data.rows[1]])))
                          \o SerEmbedding([id |-> embeddings[1].id,
                                           vector |-> projected_data.rows[1]])))]

\* The end of one round of update_all_embeddings: the shard is rewritten
\* with the header and the projected records, serialized as one Vec whose
\* count is cut off.
Rewritten(b, d, name, embeddings, projected_data) ==
    IF projected_data.st # "ok" THEN [st |-> "panic", dir |-> d]
    ELSE LET new_embeddings == [i \in 1..Len(embeddings) |->
                                  [id |-> embeddings[i].id,
                                   vector |-> projected_data.rows[i]]]
             len_as_u32 == Len(SerEmbedding(new_embeddings[1]))
             serialized_embeddings ==
                 SerVec([i \in 1..Len(embeddings) |-> SerEmbedding(new_embeddings[i])])
         IN  [st |-> "ok",
              dir |-> Put(d, name,
                          write_at_cursor_pos(
                              b, create_writable_with_options(d[name], FALSE), 0,
                              SerU32(len_as_u32)
                              \o Slice(serialized_embeddings, Len(SerU64(0)) + 1,
                                       Len(serialized_embeddings))))]

\* The records of a shard as a matrix, centered and projected.
Reprojected(b, d, name, embeddings, matrix, vector_projection) ==
    IF matrix.st # "ok" THEN [st |-> "panic", dir |-> d]
    ELSE Rewritten(b, d, name, embeddings,
                   MatMul(center_data(matrix.rows).centered, vector_projection.eigen))

\* One round of the loop of update_all_embeddings, from the records got of
\* the shard.
Updated(b, d, name, got, vector_projection) ==
    IF got.st # "ok" THEN [st |-> "panic", dir |-> d]
    ELSE Reprojected(b, d, name, got.embeddings,
                     embeddings_to_dmatrix([i \in 1..Len(got.embeddings) |->
                                              got.embeddings[i].vector]),
                     vector_projection)

\* One round of the loop of Victor::update_all_embeddings: [st, dir].
UpdateShard(b, d, tags, vector_projection) ==
    Updated(b, d, filename_for_tags(tags), get_embeddings_by_file(d[filename_for_tags(tags)]),
            vector_projection)

\* The loop of update_all_embeddings from a state [st, dir]: the first
\* panic ends it.
RECURSIVE UpdateShards(_, _, _, _)
UpdateShards(b, state, order, vector_projection) ==
    IF order = <<>> THEN state
    ELSE IF state.st # "ok" THEN state
    ELSE UpdateShards(b, UpdateShard(b, state.dir, Head(order), vector_projection),
                      Tail(order), vector_projection)

\* Victor::update_all_embeddings: the set of [st, dir] it may end in, one
\* for each order the index may be iterated in.
update_all_embeddings(b, d, vector_projection) ==
    UNION {IF m.st # "ok" THEN {[st |-> m.st, dir |-> m.dir]}
           ELSE {UpdateShards(b, [st |-> "ok", dir |-> m.dir], order, vector_projection) :
                   order \in Orders(m.files)} :
             m \in {get_matching_db_files(d, {})}}

\* The records of one shard followed by those of the shards after it.
Extended(one, rest) ==
    IF one.st # "ok" THEN NoEmbeddings
    ELSE IF rest.st # "ok" THEN NoEmbeddings
    ELSE [st |-> "ok", embeddings |-> one.embeddings \o rest.embeddings]

\* Victor::get_all_embeddings over the shards in one order: [st, embeddings].
RECURSIVE ReadShards(_, _)
ReadShards(d, order) ==
    IF order = <<>> THEN [st |-> "ok", embeddings |-> <<>>]
    ELSE Extended(get_embeddings_by_file(d[filename_for_tags(Head(order))]),
                  ReadShards(d, Tail(order)))

\* What project_embeddings does once get_all_embeddings has returned.
FitAndUpdate(b, d, prev_embeddings) ==
    IF prev_embeddings.st # "ok" THEN {[st |-> "panic", dir |-> d]}
    ELSE UNION {IF fit.st # "ok" THEN {[st |-> "panic", dir |-> d]}
                ELSE update_all_embeddings(
                         b, write_projection(b, d, [eigen |-> fit.eigen, means |-> fit.means]),
                         [eigen |-> fit.eigen, means |-> fit.means]) :
                  fit \in project_to_lower_dimension(prev_embeddings.embeddings, ReducedDim)}

\* Victor::project_embeddings (fit-and-reproject): the set of [st, dir].
project_embeddings(b, d) ==
    UNION {IF m.st # "ok" THEN {[st |-> m.st, dir |-> m.dir]}
           ELSE UNION {FitAndUpdate(b, m.dir, ReadShards(m.dir, order)) :
                         order \in Orders(m.files)} :
             m \in {get_matching_db_files(d, {})}}

----------------------------------------------------------------------------
(* The engine: insert. *)

\* The batch with its projected vectors: [st, embeddings].
Reassembled(embeddings, projected) ==
    IF \E i \in 1..Len(embeddings) : projected[i].st # "ok" THEN NoEmbeddings
    ELSE [st |-> "ok",
          embeddings |-> [i \in 1..Len(embeddings) |->
                            [id |-> embeddings[i].id, vector |-> projected[i].vector]]]

\* The vectors of a batch once projected: [st, embeddings].
ProjectBatch(embeddings, eigen_file) ==
    Reassembled(embeddings,
                [i \in 1..Len(embeddings) |->
                   project_single_vector(embeddings[i].vector, eigen_file)])

\* write_embeddings ending before the shard is written.
Stopped(st, d) == [st |-> st, dir |-> d, fit |-> FALSE]

\* write_embeddings from the serialized batch on, with a trigger that does
\* not look at eigen.bin: a new shard gets the
\* header first, the records go behind what the shard holds.  fit tells
\* whether project_embeddings is to run.
WriteRecordsRefit(b, d, name, file, embeddings_serialized) ==
    LET sizes == {Len(embeddings_serialized[i]) : i \in 1..Len(embeddings_serialized)}
        embedding_size == CHOOSE size \in sizes : TRUE
        with_header == IF Len(file) = 0
                       THEN write_at_cursor_pos(b, file, Len(file), SerU32(embedding_size))
                       ELSE file
        cursor_pos == IF Len(file) = 0 THEN Len(file) + 4 ELSE Len(file)
        written == write_at_cursor_pos(b, with_header, cursor_pos,
                                       Flatten(embeddings_serialized))
    IN  IF Cardinality(sizes) # 1 THEN Stopped("panic", d)
        ELSE IF Len(file) # 0 /\ Len(file) < 4 THEN Stopped("panic", d)
        ELSE IF Len(file) # 0 /\ embedding_size # LeValue(SubSeq(file, 1, 4))
             THEN Stopped("panic", d)
        ELSE [st |-> "ok", dir |-> Put(d, name, written),
              fit |-> /\ Wasm32(b)
                      /\ Len(written) > FitThreshold]

\* write_embeddings from the serialized batch on: a new shard gets the
\* header first, the records go behind what the shard holds.  fit tells
\* whether project_embeddings is to run.
WriteRecords(b, d, name, file, embeddings_serialized) ==
    LET sizes == {Len(embeddings_serialized[i]) : i \in 1..Len(embeddings_serialized)}
        embedding_size == CHOOSE size \in sizes : TRUE
        with_header == IF Len(file) = 0
                       THEN write_at_cursor_pos(b, file, Len(file), SerU32(embedding_size))
                       ELSE file
        cursor_pos == IF Len(file) = 0 THEN Len(file) + 4 ELSE Len(file)
        written == write_at_cursor_pos(b, with_header, cursor_pos,
                                       Flatten(embeddings_serialized))
    IN  IF Cardinality(sizes) # 1 THEN Stopped("panic", d)
        ELSE IF Len(file) # 0 /\ Len(file) < 4 THEN Stopped("panic", d)
        ELSE IF Len(file) # 0 /\ embedding_size # LeValue(SubSeq(file, 1, 4))
             THEN Stopped("panic", d)
        ELSE [st |-> "ok", dir |-> Put(d, name, written),
              fit |-> /\ Wasm32(b)
                      /\ Len(written) > FitThreshold
                      /\ ~get_file_handle_with_options(d, EigenBin, FALSE).ok]

\* A write of the batch through a writer that does not keep the existing data.
WriteBatchTruncating(b, d, name, batch) ==
    IF batch.st # "ok" THEN Stopped("panic", d)
    ELSE WriteRecords(b, d, name, create_writable_with_options(d[name], FALSE),
                      [i \in 1..Len(batch.embeddings) |-> SerEmbedding(batch.embeddings[i])])

\* write_embeddings from the batch as it is to be stored.
WriteBatch(b, d, name, batch) ==
    IF batch.st # "ok" THEN Stopped("panic", d)
    ELSE IF ~seek(b, create_writable_with_options(d[name], TRUE),
                  Len(create_writable_with_options(d[name], TRUE)))
         THEN Stopped("err", d)
    ELSE WriteRecords(b, d, name, create_writable_with_options(d[name], TRUE),
                      [i \in 1..Len(batch.embeddings) |-> SerEmbedding(batch.embeddings[i])])

\* write_embeddings once get_exact_db_file has returned g: in projected mode
\* the batch is projected.
WriteInto(b, g, name, embeddings) ==
    IF g.st # "ok" THEN Stopped(g.st, g.dir)
    ELSE WriteBatch(b, g.dir, name,
                    IF get_file_handle_with_options(g.dir, EigenBin, FALSE).ok
                    THEN ProjectBatch(embeddings, g.dir[EigenBin])
                    ELSE [st |-> "ok", embeddings |-> embeddings])

\* Victor::write_embeddings up to the closing of the shard writer:
\* [st, dir, fit].
WriteShard(b, d, embeddings, tag_list) ==
    WriteInto(b, get_exact_db_file(b, d, tag_list), filename_for_tags(Range(tag_list)),
              embeddings)

\* Victor::write_embeddings: the set of [st, dir] it may end in.
write_embeddings(b, d, embeddings, tag_list) ==
    UNION {IF w.fit THEN project_embeddings(b, w.dir) ELSE {[st |-> w.st, dir |-> w.dir]} :
             w \in {WriteShard(b, d, embeddings, tag_list)}}

\* The uuids of a set in ascending order.
RECURSIVE SortedInts(_)
SortedInts(S) ==
    IF S = {} THEN <<>>
    ELSE LET m == CHOOSE x \in S : \A y \in S : x <= y
         IN  <<m>> \o SortedInts(S \ {m})

\* bincode of HashMap<Uuid, String>, a function from uuids to strings.  The
\* entries are written in ascending order of uuid (a HashMap's order is
\* unspecified).
SerContent(hashmap) ==
    SerVec([i \in 1..Cardinality(DOMAIN hashmap) |->
              SerUuid(SortedInts(DOMAIN hashmap)[i])
              \o SerString(hashmap[SortedInts(DOMAIN hashmap)[i]])])

\* An entry whose key has been read, from its string t.
EntryOf(id, t) ==
    IF ~t.ok THEN Bad ELSE [ok |-> TRUE, val |-> <<id, t.val>>, pos |-> t.pos]

ReadEntry(cells, pos) ==
    IF ~ReadUuid(cells, pos).ok THEN Bad
    ELSE EntryOf(ReadUuid(cells, pos).val, ReadBytes(cells, ReadUuid(cells, pos).pos))

\* The entries read as a map: a later entry for the same key replaces an
\* earlier one.
AsMap(r) ==
    IF ~r.ok THEN [ok |-> FALSE, val |-> <<>>]
    ELSE [ok |-> TRUE,
          val |-> [k \in {r.val[i][1] : i \in 1..Len(r.val)} |->
                     r.val[CHOOSE i \in 1..Len(r.val) :
                              /\ r.val[i][1] = k
                              /\ \A j \in 1..Len(r.val) : r.val[j][1] = k => j <= i][2]]]

DeContent(cells) == AsMap(ReadSeq(ReadEntry, cells, 1))

\* An extend that stops after the first item of the batch.
InsertFirst(hashmap, content) ==
    IF content = <<>> THEN hashmap
    ELSE [k \in DOMAIN hashmap \cup {Head(content).id} |->
            IF k = Head(content).id THEN Head(content).content ELSE hashmap[k]]

RECURSIVE InsertAll(_, _)
InsertAll(hashmap, content) ==
    IF content = <<>> THEN hashmap
    ELSE InsertAll([k \in DOMAIN hashmap \cup {Head(content).id} |->
                       IF k = Head(content).id THEN Head(content).content ELSE hashmap[k]],
                   Tail(content))

\* A write_contents that starts from the empty map whatever the file holds.
MergedAnew(b, d, content, parsed) ==
    [st |-> "ok",
     dir |-> Put(d, ContentBin,
                 write_at_cursor_pos(b, create_writable_with_options(d[ContentBin], TRUE), 0,
                                     SerContent(InsertAll(<<>>, content))))]

\* write_contents once content.bin is open, parsed what it deserializes to:
\* [st, dir].  An empty file is the empty map; the writer keeps the existing
\* data and writes from cursor 0.
Merged(b, d, content, parsed) ==
    IF Len(d[ContentBin]) # 0 /\ ~parsed.ok THEN [st |-> "panic", dir |-> d]
    ELSE [st |-> "ok",
          dir |-> Put(d, ContentBin,
                      write_at_cursor_pos(
                          b, create_writable_with_options(d[ContentBin], TRUE), 0,
                          SerContent(InsertAll(IF Len(d[ContentBin]) = 0 THEN <<>>
                                               ELSE parsed.val,
                                               content))))]

\* Victor::write_contents: [st, dir], st "panic" for the Err the caller
\* unwraps.
write_contents(b, d, content) ==
    Merged(b, get_file_handle_with_options(d, ContentBin, TRUE).dir, content,
           DeContent(get_file_handle_with_options(d, ContentBin, TRUE).dir[ContentBin]))

\* Victor::add_embedding_many: the set of [st, dir] it may end in.  to_add
\* is a sequence of [content, vector]; the i-th item gets uuid first + i - 1.
\* Both unwraps turn an Err into a panic.
add_embedding_many(b, d, to_add, tag_list, first) ==
    LET embeddings == [i \in 1..Len(to_add) |->
                         [id |-> first + i - 1, vector |-> to_add[i].vector]]
        contents   == [i \in 1..Len(to_add) |->
                         [id |-> first + i - 1, content |-> to_add[i].content]]
    IN  {IF w.st # "ok" THEN [st |-> "panic", dir |-> w.dir]
         ELSE write_contents(b, w.dir, contents) :
           w \in write_embeddings(b, d, embeddings, tag_list)}

----------------------------------------------------------------------------
(* The engine: search.  The heap of search_embedding is a set of results    *)
(* [similarity, embedding, content]; it is a min-heap on similarity.        *)

\* A lookup that answers with the text of the lowest uuid of the map.
FoundLowest(d, parsed, id) ==
    IF ~parsed.ok THEN [st |-> "panic", dir |-> d, content |-> <<>>]
    ELSE IF id \notin DOMAIN parsed.val
         THEN [st |-> "panic", dir |-> d, content |-> <<>>]
    ELSE [st |-> "ok", dir |-> d,
          content |-> parsed.val[CHOOSE k \in DOMAIN parsed.val :
                                    \A j \in DOMAIN parsed.val : k <= j]]

\* get_content once content.bin is open, parsed what it deserializes to.
Found(d, parsed, id) ==
    IF ~parsed.ok THEN [st |-> "panic", dir |-> d, content |-> <<>>]
    ELSE IF id \notin DOMAIN parsed.val
         THEN [st |-> "panic", dir |-> d, content |-> <<>>]
    ELSE [st |-> "ok", dir |-> d, content |-> parsed.val[id]]

\* Victor::get_content: [st, dir, content].  content.bin is created when
\* absent; an empty file does not deserialize.
get_content(d, id) ==
    Found(get_file_handle_with_options(d, ContentBin, TRUE).dir,
          DeContent(get_file_handle_with_options(d, ContentBin, TRUE).dir[ContentBin]),
          id)

\* The results peek() may return: those no other result is strictly below.
Lowest(heap) == {h \in heap : \A g \in heap : ~RLt(g.similarity, h.similarity)}

\* BinaryHeap::push compares the new result with its parent; Ord::cmp
\* panics when either similarity is a NaN.
PushPanics(heap, sim) ==
    heap # {} /\ (IsNaN(sim) \/ \E h \in heap : IsNaN(h.similarity))

\* A full heap that keeps what it holds.
NeverDisplaces(similarity, low) == FALSE

\* The comparison turned around: a lower similarity displaces the lowest.
DisplacesBelow(similarity, low) == RLt(similarity, low.similarity)

\* similarity > nearest_neighbors.peek().unwrap().similarity: a full heap
\* gives up its lowest result for a strictly higher similarity.
Displaces(similarity, low) == RGt(similarity, low.similarity)

\* The body of the inner loop of search_embedding for one potential match,
\* from one state [st, dir, heap] of the scan, sim its similarity and got
\* what get_content returns for it: the set of states after it.  Which of
\* several lowest results pop() removes is up to the heap.
Considered(state, potential_match, sim, got, top_n) ==
    LET result == [similarity |-> sim.val, embedding |-> potential_match,
                   content |-> got.content]
        panic(d) == {[st |-> "panic", dir |-> d, heap |-> state.heap]}
    IN  IF ~sim.ok THEN panic(state.dir)
        ELSE IF Cardinality(state.heap) < top_n
        THEN IF got.st # "ok" THEN panic(got.dir)
             ELSE IF PushPanics(state.heap, sim.val) THEN panic(got.dir)
             ELSE {[st |-> "ok", dir |-> got.dir, heap |-> state.heap \cup {result}]}
        ELSE IF state.heap = {} THEN panic(state.dir)
        ELSE IF \E low \in Lowest(state.heap) : Displaces(sim.val, low)
        THEN IF got.st # "ok" THEN panic(got.dir)
             ELSE {[st |-> "ok", dir |-> got.dir,
                    heap |-> (state.heap \ {low}) \cup {result}] :
                      low \in Lowest(state.heap)}
        ELSE {state}

\* Every potential match scored with the cosine similarity.
ScanOneCosine(state, potential_match, vector, is_projected, top_n) ==
    Considered(state, potential_match, cosine(potential_match.vector, vector),
               get_content(state.dir, potential_match.id), top_n)

\* The similarity of a potential match: the Euclidean distance in projected
\* mode, the cosine similarity otherwise.
ScanOne(state, potential_match, vector, is_projected, top_n) ==
    Considered(state, potential_match,
               IF is_projected THEN euclidean(potential_match.vector, vector)
               ELSE cosine(potential_match.vector, vector),
               get_content(state.dir, potential_match.id), top_n)

RECURSIVE ScanFile(_, _, _, _, _)
ScanFile(states, embeddings, vector, is_projected, top_n) ==
    IF embeddings = <<>> THEN states
    ELSE ScanFile(
             UNION {IF state.st # "ok" THEN {state}
                    ELSE ScanOne(state, Head(embeddings), vector, is_projected, top_n) :
                      state \in states},
             Tail(embeddings), vector, is_projected, top_n)

\* The outer loop of search_embedding over the shards in one order.
RECURSIVE ScanFiles(_, _, _, _, _)
ScanFiles(states, order, vector, is_projected, top_n) ==
    IF order = <<>> THEN states
    ELSE ScanFiles(
             UNION {IF state.st # "ok" THEN {state}
                    ELSE UNION {IF got.st # "ok"
                                THEN {[st |-> "panic", dir |-> state.dir,
                                       heap |-> state.heap]}
                                ELSE ScanFile({state}, got.embeddings, vector,
                                              is_projected, top_n) :
                                  got \in {get_embeddings_by_file(
                                               state.dir[filename_for_tags(Head(order))])}} :
                      state \in states},
             Tail(order), vector, is_projected, top_n)

\* nearest.sort(); nearest.reverse(): the lists the heap may be returned as,
\* results of equal similarity in any order.
Descending(heap) ==
    {o \in Orders(heap) :
        \A i \in 1..(Cardinality(heap) - 1) : ~RLt(o[i].similarity, o[i + 1].similarity)}

\* search_embedding over the shards m it was handed, query the vector the
\* stored ones are compared with.
SearchShards(m, is_projected, query, top_n) ==
    IF query.st # "ok"
    THEN {[st |-> "panic", dir |-> m.dir, result |-> <<>>, scanned |-> m.files]}
    ELSE UNION {IF end.st # "ok"
                THEN {[st |-> "panic", dir |-> end.dir, result |-> <<>>,
                       scanned |-> m.files]}
                ELSE {[st |-> "ok", dir |-> end.dir, result |-> nearest,
                       scanned |-> m.files] : nearest \in Descending(end.heap)} :
                  end \in UNION {ScanFiles({[st |-> "ok", dir |-> m.dir, heap |-> {}]},
                                           order, query.vector, is_projected, top_n) :
                                   order \in Orders(m.files)}}

\* search_embedding once get_matching_db_files has returned m: in projected
\* mode the query is projected.
SearchIn(m, vector, top_n) ==
    IF m.st # "ok"
    THEN {[st |-> "panic", dir |-> m.dir, result |-> <<>>, scanned |-> m.files]}
    ELSE SearchShards(m, get_file_handle_with_options(m.dir, EigenBin, FALSE).ok,
                      IF get_file_handle_with_options(m.dir, EigenBin, FALSE).ok
                      THEN project_single_vector(vector, m.dir[EigenBin])
                      ELSE [st |-> "ok", vector |-> vector],
                      top_n)

\* Victor::search_embedding: the set of [st, dir, result, scanned] it may end
\* in; scanned are the tag-sets whose shards it was handed.
search_embedding(d, vector, with_tags, top_n) ==
    SearchIn(get_matching_db_files(d, Range(with_tags)), vector, top_n)

----------------------------------------------------------------------------
(* The engine: clear. *)

\* A loop that removes no shard.
RemoveNothing(b, d, order) == [ok |-> TRUE, dir |-> d]

\* The loop of clear_db over the shard names in one order: [ok, dir]; the
\* first failing removal ends it.
RECURSIVE RemoveAll(_, _, _)
RemoveAll(b, d, order) ==
    IF order = <<>> THEN [ok |-> TRUE, dir |-> d]
    ELSE IF ~remove_entry(b, d, Head(order)).ok
         THEN [ok |-> FALSE, dir |-> remove_entry(b, d, Head(order)).dir]
    ELSE RemoveAll(b, remove_entry(b, d, Head(order)).dir, Tail(order))

\* The three removals with their errors passed on to the caller.
ClearedChecked(b, r) ==
    IF ~r.ok THEN [st |-> "err", dir |-> r.dir]
    ELSE IF ~remove_entry(b, r.dir, IndexBin).ok THEN [st |-> "err", dir |-> r.dir]
    ELSE IF ~remove_entry(b, remove_entry(b, r.dir, IndexBin).dir, ContentBin).ok
         THEN [st |-> "err", dir |-> remove_entry(b, r.dir, IndexBin).dir]
    ELSE [st |-> IF remove_entry(b, remove_entry(b, remove_entry(b, r.dir, IndexBin).dir,
                                                 ContentBin).dir, EigenBin).ok
                 THEN "ok" ELSE "err",
          dir |-> remove_entry(b, remove_entry(b, remove_entry(b, r.dir, IndexBin).dir,
                                               ContentBin).dir, EigenBin).dir]

\* clear_db once the shards are removed: index.bin, content.bin and
\* eigen.bin are removed, whatever the removals return.
Cleared(b, r) ==
    IF ~r.ok THEN [st |-> "err", dir |-> r.dir]
    ELSE [st |-> "ok",
          dir |-> remove_entry(b, remove_entry(b, remove_entry(b, r.dir, IndexBin).dir,
                                               ContentBin).dir, EigenBin).dir]

\* Victor::clear_db: the set of [st, dir] it may end in.
clear_db(b, d) ==
    UNION {IF f.st # "ok" THEN {[st |-> f.st, dir |-> f.dir]}
           ELSE {Cleared(b, RemoveAll(b, f.dir, order)) : order \in Orders(f.files)} :
             f \in {get_all_db_filenames(d)}}

----------------------------------------------------------------------------
(* What the properties below read off a state. *)

\* The tag-sets index.bin lists.
KnownTagSets(d) ==
    IF ~Exists(d, IndexBin) THEN {}
    ELSE IF Len(d[IndexBin]) = 0 THEN {}
    ELSE IF DeIndex(d[IndexBin]).ok THEN DeIndex(d[IndexBin]).val ELSE {}

\* The records of the shard of a tag-set; a zero-byte shard holds none.
RecordsOf(d, tags) ==
    LET name == filename_for_tags(tags)
    IN  IF ~Exists(d, name) THEN <<>>
        ELSE IF Len(d[name]) = 0 THEN <<>>
        ELSE get_embeddings_by_file(d[name]).embeddings

\* The records of the shards whose tag-set contains all of Q.
MatchingRecords(d, Q) ==
    UNION {Range(RecordsOf(d, tags)) : tags \in {t \in KnownTagSets(d) : Q \subseteq t}}

IsProjected(d) == Exists(d, EigenBin)

\* The query a search compares the stored vectors with: in projected mode
\* the projection of the vector it was given.
QueryOf(d, vector) ==
    IF IsProjected(d) THEN project_single_vector(vector, d[EigenBin]).vector ELSE vector

\* The score of a stored record for such a query: the cosine similarity, or
\* in projected mode the Euclidean distance.
ScoreTo(d, e, query) ==
    IF IsProjected(d) THEN euclidean(e.vector, query).val ELSE cosine(e.vector, query).val

\* The score of a stored record for the vector a search was given.
Score(d, e, vector) == ScoreTo(d, e, QueryOf(d, vector))

Min(a, b) == IF a < b THEN a ELSE b

NonZero(v) == \E i \in 1..Len(v) : v[i] # R(0)

SearchDone == last.op = "search_embedding"

InsertDone == last.op = "add_embedding_many"

ResultIds == {last.result[i].embedding.id : i \in 1..Len(last.result)}

\* The matching records a finished search did not return.
LeftOut == {e \in last.matching : e.id \notin ResultIds}

NonIncreasing(result) ==
    \A i \in 1..(Len(result) - 1) : ~RLt(result[i].similarity, result[i + 1].similarity)

----------------------------------------------------------------------------
(* The inputs of the public operations. *)

TagA == <<97>>

TagB == <<98>>

TagC == <<99>>

\* Tag lists given to inserts.
InsertTags == {<<>>, <<TagB, TagA>>, <<TagA, TagB, TagA>>}

\* Tag lists given to searches.
SearchTags == {<<>>, <<TagA>>, <<TagA, TagC>>}

Hello == <<104, 105>>

Bye == <<98, 121, 101>>

Item(content, v) == [content |-> content, vector |-> VecOf(v)]

\* The batches given to add_embedding_many.
Batches ==
    {<<>>,
     <<Item(<<111>>, <<0, 1>>)>>,
     <<Item(Bye, <<2, 0>>), Item(Hello, <<1, 0>>)>>,
     <<Item(<<50>>, <<2>>), Item(<<49>>, <<1>>)>>,
     <<Item(Hello, <<1, 0>>), Item(<<49>>, <<1>>)>>}

\* The query vectors given to search_embedding.
Queries == {VecOf(<<1, 0>>), VecOf(<<0, 0>>), VecOf(<<1>>)}

\* No operation is under way: the caller has taken the last result.  For an
\* operation, before is the directory it started from and clean tells that
\* no operation before it had failed; for a search, matching are the records
\* the shards of the matching tag-sets held when it started; for a clear,
\* broken are the files the storage refused to remove.
NoOp == [op |-> "none", st |-> "ok", tags |-> <<>>, batch |-> <<>>, first |-> 0,
         vector |-> <<>>, top_n |-> 0, result |-> <<>>, scanned |-> {},
         before |-> <<>>, clean |-> TRUE, matching |-> {}, broken |-> {}]

----------------------------------------------------------------------------
(* The state machine.  A public operation runs as one step, from the call   *)
(* to the result (or the panic); the caller then takes the result.  The     *)
(* directory outlives a panic.                                              *)

\* The file names of the storage calls below.
MemNames == {IndexBin, ContentBin}

\* No storage call has been made.
NoCall == [op |-> "none", st |-> "ok", h |-> 0, name |-> <<>>, offset |-> 0,
           data |-> <<>>, result |-> <<>>, size |-> 0,
           entries |-> <<>>, streams |-> <<>>, handles |-> <<>>]

\* DirectoryHandle::new of memory.rs: an empty map, no buffer, no handle.
NoObjects ==
    /\ entries = <<>>
    /\ streams = <<>>
    /\ handles = <<>>
    /\ epoch = [name \in MemNames |-> 0]
    /\ call = NoCall

\* No vector has been given to the codec.
NoCodec == [vector |-> <<>>, packed |-> <<>>, unpacked |-> <<>>]

\* Victor::new(root): an engine that has done nothing, on an empty directory.
Opened ==
    /\ dir = <<>>
    /\ nextUuid = 1
    /\ inserts = 0
    /\ added = <<>>
    /\ failed = FALSE
    /\ last = NoOp

Init ==
    /\ backend \in Backends
    /\ Opened
    /\ NoObjects
    /\ codec = NoCodec

Idle == last.op = "none"

\* add_embedding_many(to_add, tags); add_embedding is the case of one item.
Insert ==
    /\ Idle
    /\ inserts < MaxInserts
    /\ inserts' = inserts + 1
    /\ \E to_add \in Batches, tag_list \in InsertTags :
        /\ \E o \in add_embedding_many(backend, dir, to_add, tag_list, nextUuid) :
              /\ dir' = o.dir
              /\ failed' = (failed \/ o.st # "ok")
              /\ last' = [NoOp EXCEPT !.op = "add_embedding_many", !.st = o.st,
                                      !.tags = tag_list, !.batch = to_add,
                                      !.first = nextUuid, !.before = dir,
                                      !.clean = ~failed]
        /\ nextUuid' = nextUuid + Len(to_add)
        /\ added' = [u \in DOMAIN added \cup (nextUuid..(nextUuid + Len(to_add) - 1)) |->
                        IF u \in DOMAIN added THEN added[u]
                        ELSE [tags |-> Range(tag_list),
                              vector |-> to_add[u - nextUuid + 1].vector,
                              content |-> to_add[u - nextUuid + 1].content]]
        /\ UNCHANGED <<backend, storage, codec>>

Search ==
    /\ Idle
    /\ \E with_tags \in SearchTags :
        \E matching \in {MatchingRecords(dir, Range(with_tags))} :
          \E vector \in Queries, top_n \in 0..MaxTopN :
          \E o \in search_embedding(dir, vector, with_tags, top_n) :
            /\ dir' = o.dir
            /\ failed' = (failed \/ o.st # "ok")
            /\ last' = [NoOp EXCEPT !.op = "search_embedding", !.st = o.st,
                                    !.tags = with_tags, !.vector = vector,
                                    !.top_n = top_n, !.result = o.result,
                                    !.scanned = o.scanned, !.before = dir,
                                    !.clean = ~failed, !.matching = matching]
            /\ UNCHANGED <<backend, nextUuid, inserts, added, storage, codec>>

Clear ==
    /\ Idle
    /\ \E o \in clear_db(backend, dir) :
        /\ dir' = o.dir
        /\ failed' = (failed \/ o.st # "ok")
        /\ last' = [NoOp EXCEPT !.op = "clear_db", !.st = o.st, !.before = dir,
                                !.clean = ~failed]
        /\ added' = IF o.st = "ok" THEN <<>> ELSE added
        /\ UNCHANGED <<backend, nextUuid, inserts, storage, codec>>

\* The caller takes the result.
Return ==
    /\ ~Idle
    /\ last' = NoOp
    /\ UNCHANGED <<backend, dir, nextUuid, inserts, added, failed, storage, codec>>

Next == Insert \/ Search \/ Clear \/ Return

Spec == Init /\ [][Next]_vars

----------------------------------------------------------------------------
(* The engine on storage that fails.  Two things can go wrong that the      *)
(* operations above never meet: a removal fails with an I/O error although  *)
(* the file is there (it stays), and an insert is cancelled (its future is  *)
(* dropped, or the process ends) between two storage calls or, on the       *)
(* backends that write to a file, part-way through a write.                 *)

\* How many trailing bytes of the records a cancelled write may drop.
MaxTornBytes == 1

\* remove_entry on storage that refuses to remove the files in broken.
RemoveEntryOf(b, d, name, broken) ==
    IF name \in broken /\ Exists(d, name) THEN [ok |-> FALSE, dir |-> d]
    ELSE remove_entry(b, d, name)

\* The loop of clear_db over the shard names on such storage: [ok, dir];
\* the first failing removal ends it.
RECURSIVE RemoveAllOf(_, _, _, _)
RemoveAllOf(b, d, order, broken) ==
    IF order = <<>> THEN [ok |-> TRUE, dir |-> d]
    ELSE IF ~RemoveEntryOf(b, d, Head(order), broken).ok
         THEN [ok |-> FALSE, dir |-> d]
    ELSE RemoveAllOf(b, RemoveEntryOf(b, d, Head(order), broken).dir, Tail(order), broken)

\* clear_db once the shards are removed, on such storage: the results of
\* the three removals are dropped.
ClearedOf(b, r, broken) ==
    IF ~r.ok THEN [st |-> "err", dir |-> r.dir]
    ELSE [st |-> "ok",
          dir |-> RemoveEntryOf(
                      b, RemoveEntryOf(b, RemoveEntryOf(b, r.dir, IndexBin, broken).dir,
                                       ContentBin, broken).dir,
                      EigenBin, broken).dir]

\* Victor::clear_db on such storage: the set of [st, dir] it may end in.
clear_db_on(b, d, broken) ==
    UNION {IF f.st # "ok" THEN {[st |-> f.st, dir |-> f.dir]}
           ELSE {ClearedOf(b, RemoveAllOf(b, f.dir, order, broken), broken) :
                   order \in Orders(f.files)} :
             f \in {get_all_db_filenames(d)}}

\* The directories get_exact_db_file passes through before it opens the
\* shard, l the loaded index: index.bin opened, and for a tag-set new to
\* the index, index.bin truncated by the writer and index.bin rewritten.
\* The writer of the web backend changes the file when it is closed, so
\* there the truncated index.bin is never in the directory.
ExactFileSteps(b, l, tags) ==
    IF l.st # "ok" THEN {}
    ELSE IF tags \in l.index THEN {l.dir}
    ELSE {l.dir,
          Put(l.dir, IndexBin,
              write_at_cursor_pos(b, create_writable_with_options(l.dir[IndexBin], FALSE),
                                  0, SerIndex(l.index \cup {tags})))}
         \cup (IF Wasm32(b) THEN {}
               ELSE {Put(l.dir, IndexBin,
                         create_writable_with_options(l.dir[IndexBin], FALSE))})

\* The directories a write of records to the shard leaves when it is cut
\* short, w what write_embeddings leaves when it is not and g the directory
\* the write started from.  The in-memory write is one assignment, and the
\* web writer's data reaches the file as a whole, on close.
TornShards(b, w, g, name) ==
    IF b # "native" \/ w.st # "ok" \/ g.st # "ok" THEN {}
    ELSE {Put(w.dir, name, SubSeq(w.dir[name], 1, Len(w.dir[name]) - k)) :
            k \in {j \in 1..MaxTornBytes : Len(w.dir[name]) - j > Len(g.dir[name])}}

\* The directories a cancelled write_embeddings may leave.
cancelled_write_embeddings(b, d, embeddings, tag_list) ==
    ExactFileSteps(b, load(d), Range(tag_list))
    \cup {g.dir : g \in {x \in {get_exact_db_file(b, d, tag_list)} : x.st = "ok"}}
    \cup TornShards(b, WriteShard(b, d, embeddings, tag_list),
                    get_exact_db_file(b, d, tag_list), filename_for_tags(Range(tag_list)))

\* A stop that comes after content.bin has been written and before anything
\* else has.
StoppedContentsFirst(b, d, to_add, tag_list, first) ==
    {w.dir : w \in {write_contents(b, d, [i \in 1..Len(to_add) |->
                                            [id |-> first + i - 1,
                                             content |-> to_add[i].content]])}}

\* The directories add_embedding_many may leave when it stops before
\* write_contents has written: during write_embeddings, after the shard
\* writer is closed, and after write_embeddings has returned Ok, with
\* fit-and-reproject done where it was due.
stopped_add_embedding_many(b, d, to_add, tag_list, first) ==
    LET embeddings == [i \in 1..Len(to_add) |->
                         [id |-> first + i - 1, vector |-> to_add[i].vector]]
    IN  cancelled_write_embeddings(b, d, embeddings, tag_list)
        \cup {w.dir : w \in {x \in {WriteShard(b, d, embeddings, tag_list)} : x.st = "ok"}}
        \cup {w.dir : w \in {x \in write_embeddings(b, d, embeddings, tag_list) :
                                 x.st = "ok"}}

\* clear_db while the storage refuses to remove some file that is there.
\* The removal of the in-memory backend has no way to fail.
ClearFailing ==
    /\ Idle
    /\ backend # "memory"
    /\ \E name \in DOMAIN dir :
        \E o \in clear_db_on(backend, dir, {name}) :
          /\ dir' = o.dir
          /\ failed' = TRUE
          /\ last' = [NoOp EXCEPT !.op = "clear_db", !.st = o.st, !.before = dir,
                                  !.clean = ~failed, !.broken = {name}]
          /\ added' = added
          /\ UNCHANGED <<backend, nextUuid, inserts, storage, codec>>

\* add_embedding_many cancelled before write_contents has written.
InsertCancelled ==
    /\ Idle
    /\ inserts < MaxInserts
    /\ inserts' = inserts + 1
    /\ \E to_add \in Batches, tag_list \in InsertTags :
        /\ \E d \in stopped_add_embedding_many(backend, dir, to_add, tag_list, nextUuid) :
              /\ dir' = d
              /\ failed' = TRUE
              /\ last' = [NoOp EXCEPT !.op = "add_embedding_many", !.st = "cancelled",
                                      !.tags = tag_list, !.batch = to_add,
                                      !.first = nextUuid, !.before = dir,
                                      !.clean = ~failed]
        /\ nextUuid' = nextUuid + Len(to_add)
        /\ added' = [u \in DOMAIN added \cup (nextUuid..(nextUuid + Len(to_add) - 1)) |->
                        IF u \in DOMAIN added THEN added[u]
                        ELSE [tags |-> Range(tag_list),
                              vector |-> to_add[u - nextUuid + 1].vector,
                              content |-> to_add[u - nextUuid + 1].content]]
        /\ UNCHANGED <<backend, storage, codec>>

FaultNext == Insert \/ Search \/ Clear \/ Return \/ ClearFailing \/ InsertCancelled

FaultSpec == Init /\ [][FaultNext]_vars

----------------------------------------------------------------------------
(* The in-memory backend by itself (filesystem/memory.rs): a caller that    *)
(* holds a DirectoryHandle and makes storage calls on it and on the         *)
(* FileHandles and WritableFileStreams it gets.  A buffer is an             *)
(* Rc<RefCell<Vec<u8>>>; it is named by its place in streams, and a clone   *)
(* of a handle holds the same place.  A handle is                           *)
(* [kind, stream, cursor_pos, entry]; entry tells which directory entry it  *)
(* was obtained for: the name and how many entries of that name had been    *)
(* removed before.                                                          *)

\* How many handles and writers the caller holds at most.
MaxHandles == 3

\* How long a file gets at most.
MaxFileLen == 3

\* The data the caller writes.
Datas == {<<1, 2>>}

\* The directory as the engine sees it: file name -> bytes.
View == [name \in DOMAIN entries |-> streams[entries[name]]]

Running == call.st # "panic"

\* What a storage call leaves in call: what it was given, what it returned,
\* and the objects as they were when it was made.
Called(op, st, h, name, offset, data, result) ==
    [op |-> op, st |-> st, h |-> h, name |-> name, offset |-> offset, data |-> data,
     result |-> result, size |-> Len(result),
     entries |-> entries, streams |-> streams, handles |-> handles]

\* keep notes, for a writer, the keep_existing_data it was created with; the
\* code has no such field and nothing but the properties reads it.
FileHandleFor(name, stream) ==
    [kind |-> "file", stream |-> stream, cursor_pos |-> 0,
     entry |-> <<name, epoch[name]>>, keep |-> FALSE]

\* DirectoryHandle::get_file_handle_with_options of memory.rs: an occupied
\* entry hands out a clone of its FileHandle, a vacant one gets a new
\* FileHandle (a new buffer) when options.create is set.
MemOpen ==
    /\ Running
    /\ Len(handles) < MaxHandles
    /\ \E name \in MemNames, create \in BOOLEAN :
          IF ~get_file_handle_with_options(View, name, create).ok
          THEN /\ call' = Called("open", "err", 0, name, 0, <<>>, <<>>)
               /\ UNCHANGED <<entries, streams, handles>>
          ELSE IF Exists(entries, name)
          THEN /\ handles' = Append(handles, FileHandleFor(name, entries[name]))
               /\ call' = Called("open", "ok", Len(handles) + 1, name, 0, <<>>, <<>>)
               /\ UNCHANGED <<entries, streams>>
          ELSE /\ streams' = Append(streams,
                                    get_file_handle_with_options(View, name, create).dir[name])
               /\ entries' = Put(entries, name, Len(streams) + 1)
               /\ handles' = Append(handles, FileHandleFor(name, Len(streams) + 1))
               /\ call' = Called("open", "ok", Len(handles) + 1, name, 0, <<>>, <<>>)
    /\ UNCHANGED <<epoch, engine, codec>>

\* DirectoryHandle::remove_entry of memory.rs: the entry is dropped; the
\* buffer lives on in the handles that hold it.
MemRemove ==
    /\ Running
    /\ \E name \in MemNames :
          /\ entries' = [n \in DOMAIN remove_entry("memory", View, name).dir |-> entries[n]]
          /\ epoch' = [epoch EXCEPT ![name] = IF Exists(entries, name) THEN @ + 1 ELSE @]
          /\ call' = Called("remove_entry",
                            IF remove_entry("memory", View, name).ok THEN "ok" ELSE "err",
                            0, name, 0, <<>>, <<>>)
    /\ UNCHANGED <<streams, handles, engine, codec>>

\* FileHandle::create_writable_with_options of memory.rs: the buffer is
\* cleared unless keep_existing_data; the writer is a clone with cursor 0.
MemOpenWriter ==
    /\ Running
    /\ Len(handles) < MaxHandles
    /\ \E h \in DOMAIN handles, keep_existing_data \in BOOLEAN :
          /\ handles[h].kind = "file"
          /\ streams' = [streams EXCEPT ![handles[h].stream] =
                            create_writable_with_options(@, keep_existing_data)]
          /\ handles' = Append(handles, [handles[h] EXCEPT !.kind = "writer",
                                                          !.cursor_pos = 0,
                                                          !.keep = keep_existing_data])
          /\ call' = Called("create_writable", "ok", Len(handles) + 1, handles[h].entry[1],
                            0, <<>>, <<>>)
    /\ UNCHANGED <<entries, epoch, engine, codec>>

\* WritableFileStream::write_at_cursor_pos of memory.rs.  The slice
\* stream[0..cursor_pos] panics when the buffer has become shorter than
\* the cursor.
MemWrite ==
    /\ Running
    /\ \E h \in DOMAIN handles, data \in Datas :
          /\ handles[h].kind = "writer"
          /\ IF handles[h].cursor_pos > Len(streams[handles[h].stream])
             THEN /\ call' = Called("write", "panic", h, handles[h].entry[1], 0, data, <<>>)
                  /\ UNCHANGED <<streams, handles>>
             ELSE /\ handles[h].cursor_pos + Len(data) <= MaxFileLen
                  /\ streams' = [streams EXCEPT ![handles[h].stream] =
                                    write_at_cursor_pos("memory", @, handles[h].cursor_pos,
                                                        data)]
                  /\ handles' = [handles EXCEPT ![h].cursor_pos = @ + Len(data)]
                  /\ call' = Called("write", "ok", h, handles[h].entry[1], 0, data, <<>>)
    /\ UNCHANGED <<entries, epoch, engine, codec>>

\* WritableFileStream::seek of memory.rs.
MemSeek ==
    /\ Running
    /\ \E h \in DOMAIN handles, offset \in 0..(MaxFileLen + 1) :
          /\ handles[h].kind = "writer"
          /\ IF seek("memory", streams[handles[h].stream], offset)
             THEN /\ handles' = [handles EXCEPT ![h].cursor_pos = offset]
                  /\ call' = Called("seek", "ok", h, handles[h].entry[1], offset, <<>>, <<>>)
             ELSE /\ call' = Called("seek", "err", h, handles[h].entry[1], offset, <<>>,
                                    <<>>)
                  /\ UNCHANGED handles
    /\ UNCHANGED <<entries, streams, epoch, engine, codec>>

\* FileHandle::read and FileHandle::size of memory.rs.
MemRead ==
    /\ Running
    /\ \E h \in DOMAIN handles :
          /\ handles[h].kind = "file"
          /\ call' = Called("read", "ok", h, handles[h].entry[1], 0, <<>>,
                            streams[handles[h].stream])
    /\ UNCHANGED <<entries, streams, handles, epoch, engine, codec>>

MemInit == Init /\ backend = "memory"

MemNext == MemOpen \/ MemRemove \/ MemOpenWriter \/ MemWrite \/ MemSeek \/ MemRead

MemSpec == MemInit /\ [][MemNext]_vars

----------------------------------------------------------------------------
(* The codec of packed_vector.rs on its own: a vector is packed, the packed *)
(* vector unpacked, and the result packed and unpacked again.               *)

\* The most elements of a vector given to the codec.
MaxCodecLen == 3

\* How many times the vector goes through pack and unpack.
MaxRounds == 2

\* The f32 values of those vectors.
CodecValues == {R(-1), R(0), R(1), R(3), INFINITY}

RECURSIVE VectorsOf(_)
VectorsOf(n) ==
    IF n = 0 THEN {<<>>}
    ELSE {<<x>> \o v : x \in CodecValues, v \in VectorsOf(n - 1)}

CodecVectors == UNION {VectorsOf(n) : n \in 0..MaxCodecLen}

\* What the next pack is given: the vector, or the last unpacked vector.
Unpacked == IF codec.unpacked = <<>> THEN codec.vector
            ELSE codec.unpacked[Len(codec.unpacked)]

\* PackedVector::pack
Pack ==
    /\ Len(codec.packed) = Len(codec.unpacked)
    /\ Len(codec.packed) < MaxRounds
    /\ codec' = [codec EXCEPT !.packed = Append(@, pack(Unpacked))]
    /\ UNCHANGED <<engine, storage>>

\* PackedVector::unpack
Unpack ==
    /\ Len(codec.packed) = Len(codec.unpacked) + 1
    /\ codec' = [codec EXCEPT !.unpacked = Append(@, unpack(codec.packed[Len(codec.packed)]))]
    /\ UNCHANGED <<engine, storage>>

CodecInit ==
    /\ backend = "memory"
    /\ Opened
    /\ NoObjects
    /\ codec \in {[NoCodec EXCEPT !.vector = v] : v \in CodecVectors}

CodecNext == Pack \/ Unpack

CodecSpec == CodecInit /\ [][CodecNext]_vars

----------------------------------------------------------------------------
(* The properties. *)

\* C1: after any sequence of completed public operations (inserts that ran
\* the fit-and-reproject included), every shard file listed in the index
\* has size 0, or a size of at least 4 with size - 4 a multiple of the
\* record size its header gives.
C1_ShardSizes ==
    ~failed =>
        \A tags \in KnownTagSets(dir) :
            LET name == filename_for_tags(tags)
                size == Len(dir[name])
                record_size == LeValue(SubSeq(dir[name], 1, 4))
            IN  /\ Exists(dir, name)
                /\ \/ size = 0
                   \/ /\ size >= 4
                      /\ \/ record_size = 0 /\ size = 4
                         \/ record_size > 0 /\ (size - 4) % record_size = 0

\* An insert has just fitted the projection and rewritten two shards that
\* hold records.
C1_Witness ==
    /\ ~failed
    /\ InsertDone
    /\ IsProjected(dir)
    /\ ~IsProjected(last.before)
    /\ Cardinality({tags \in KnownTagSets(dir) : RecordsOf(dir, tags) # <<>>}) >= 2

\* C2: after completed operations (the caller having taken the last result)
\* every uuid stored in a shard is a key of content.bin, so that the content
\* lookup of a search finds it.
C2_UuidsHaveContent ==
    (Idle /\ ~failed) =>
        LET stored == MatchingRecords(dir, {})
            content == DeContent(dir[ContentBin])
        IN  stored # {} =>
                /\ Exists(dir, ContentBin)
                /\ content.ok
                /\ \A e \in stored :
                      /\ e.id \in DOMAIN content.val
                      /\ get_content(dir, e.id).st = "ok"

\* Three records are stored, in shards the fit-and-reproject has rewritten.
C2_Witness ==
    /\ Idle
    /\ ~failed
    /\ IsProjected(dir)
    /\ Cardinality(MatchingRecords(dir, {})) >= 3

\* C3: for every query, tag-set Q and top_n >= 0 (0 included) the search
\* returns exactly min(top_n, M) results, M the number of records in the
\* matching shards, sorted by score in non-increasing order.  Stated for
\* non-zero queries and records of the query's length, after completed
\* operations.
C3_ResultCount ==
    (/\ SearchDone
     /\ last.clean
     /\ NonZero(last.vector)
     /\ \A e \in last.matching :
           /\ Len(added[e.id].vector) = Len(last.vector)
           /\ NonZero(added[e.id].vector))
    => /\ last.st = "ok"
       /\ Len(last.result) =
              Min(last.top_n, Cardinality(last.matching))
       /\ NonIncreasing(last.result)

\* C4: the results of a search are the top_n highest-scoring matching
\* records: each is a matching record with its score, and no matching
\* record left out scores strictly higher than a returned one.
C4_TopScores ==
    (SearchDone /\ last.st = "ok") =>
        LET matching == last.matching
            query == QueryOf(last.before, last.vector)
            score == [e \in matching |-> ScoreTo(last.before, e, query)]
        IN  /\ \A i \in 1..Len(last.result) :
                  /\ last.result[i].embedding \in matching
                  /\ last.result[i].similarity = score[last.result[i].embedding]
            /\ \A e \in matching : \A i \in 1..Len(last.result) :
                  e.id \notin ResultIds =>
                      ~RGt(score[e], last.result[i].similarity)

\* A search returned one record and left out a record of a lower score.
C4_Witness ==
    /\ SearchDone
    /\ last.st = "ok"
    /\ Len(last.result) = 1
    /\ \E e \in LeftOut :
          RLt(Score(last.before, e, last.vector), last.result[1].similarity)

\* Of two stored records, a is closer to the query than b: a higher cosine
\* similarity, or in projected mode a smaller Euclidean distance.
Closer(d, a, b, vector) ==
    IF IsProjected(d) THEN RLt(Score(d, a, vector), Score(d, b, vector))
    ELSE RGt(Score(d, a, vector), Score(d, b, vector))

\* C5: a search returns the nearest neighbours of the query in both modes,
\* projected (Euclidean) mode included: no record left out is closer to the
\* query than a returned one, and the first result is the closest.
C5_NearestNeighbours ==
    (SearchDone /\ last.clean /\ last.st = "ok") =>
        /\ \A e \in LeftOut : \A i \in 1..Len(last.result) :
              ~Closer(last.before, e, last.result[i].embedding, last.vector)
        /\ \A i \in 1..Len(last.result) :
              ~Closer(last.before, last.result[i].embedding,
                      last.result[1].embedding, last.vector)

\* In projected mode the query has the length the projection was fitted for.
QueryFits(d, vector) ==
    IsProjected(d) => Len(vector) = Len(DeProjection(d[EigenBin]).means)

ZeroByteShards ==
    {t \in KnownTagSets(last.before) :
        /\ Range(last.tags) \subseteq t
        /\ Exists(last.before, filename_for_tags(t))
        /\ Len(last.before[filename_for_tags(t)]) = 0}

\* C7: an empty result is not an error: a search whose matching shards hold
\* no record returns the empty list, in particular when a matching shard
\* listed in the index is a zero-byte file.
C7_EmptyIsNotAnError ==
    (/\ SearchDone
     /\ NonZero(last.vector)
     /\ last.matching = {}
     /\ ZeroByteShards # {})
    => (last.st = "ok" /\ last.result = <<>>)

\* The matching records a finished search found stored for its own query
\* vector.
OwnRecords ==
    {e \in last.matching :
        e.id \in DOMAIN added /\ added[e.id].vector = last.vector}

\* A cosine-mode search for top_n >= 1 results with a vector that was
\* inserted as the query and tags matching its shard.
SelfSearch ==
    /\ SearchDone
    /\ ~IsProjected(last.before)
    /\ last.top_n >= 1
    /\ OwnRecords # {}

MixesLengths ==
    \/ \E i, j \in 1..Len(last.batch) :
          Len(last.batch[i].vector) # Len(last.batch[j].vector)
    \/ \E i \in 1..Len(last.batch) :
          \E e \in Range(RecordsOf(last.before, Range(last.tags))) :
              Len(last.batch[i].vector) # Len(added[e.id].vector)

\* C9: mixing dimensionalities fails loudly: an insert whose vectors differ
\* in length from those already stored in the shard of its tag-set, or
\* among themselves, ends in a fatal error.
C9_MixedLengthsFail ==
    (InsertDone /\ last.clean /\ MixesLengths) => last.st # "ok"

\* C10: after any sequence of public operations clear_db leaves none of
\* index.bin, content.bin, eigen.bin or any shard in the directory, and a
\* search issued from there returns the empty list.
C10_ClearLeavesNothing ==
    /\ last.op = "clear_db" => (last.st = "ok" /\ DOMAIN dir = {})
    /\ (SearchDone /\ DOMAIN last.before = {}) =>
           (last.st = "ok" /\ last.result = <<>>)

\* A search has run on the directory clear_db left behind, records having
\* been inserted before.
C10_Witness ==
    /\ SearchDone
    /\ DOMAIN last.before = {}
    /\ nextUuid > 1
    /\ last.st = "ok"
    /\ last.result = <<>>

----------------------------------------------------------------------------
\* C11: clear_db on a directory that holds nothing (a new database, or one a
\* clear_db has just emptied) returns Ok and leaves the directory as it
\* found it, on every backend: load creates index.bin, no shard is listed,
\* and the removals of index.bin, content.bin and eigen.bin may fail
\* unnoticed.
C11_ClearIdempotent ==
    (last.op = "clear_db" /\ DOMAIN last.before = {}) =>
        /\ last.st = "ok"
        /\ dir = last.before

\* A second clear_db on the native backend: records had been inserted, a
\* clear_db emptied the directory and this one ran on the empty directory.
C11_Witness ==
    /\ last.op = "clear_db"
    /\ backend = "native"
    /\ nextUuid > 1
    /\ DOMAIN last.before = {}
    /\ last.st = "ok"
    /\ DOMAIN dir = {}

----------------------------------------------------------------------------
\* The shard names of the tag-sets index.bin lists.
ShardNames(d) == {filename_for_tags(tags) : tags \in KnownTagSets(d)}

----------------------------------------------------------------------------
\* The ids an insert gave to its records.
InsertedIds == last.first..(last.first + Len(last.batch) - 1)

\* C13: the shard of an insert is determined by the set of its tags: index.bin
\* lists every tag-set once, two listed tag-sets never have the same shard
\* name, and a successful insert leaves its records in the shard named after
\* the set of its tags, adding no index entry and no shard when an earlier
\* insert had the same tags in another order or with duplicates.
C13_ShardOfTagSet ==
    /\ \A s, t \in KnownTagSets(dir) :
          s # t => filename_for_tags(s) # filename_for_tags(t)
    /\ (Exists(dir, IndexBin) /\ Len(dir[IndexBin]) > 0) =>
          U64At(dir[IndexBin], 1) = Cardinality(KnownTagSets(dir))
    /\ (InsertDone /\ last.st = "ok") =>
          /\ Range(last.tags) \in KnownTagSets(dir)
          /\ InsertedIds \subseteq
                {e.id : e \in Range(RecordsOf(dir, Range(last.tags)))}
          /\ Range(last.tags) \in KnownTagSets(last.before) =>
                /\ KnownTagSets(dir) = KnownTagSets(last.before)
                /\ ShardNames(dir) = ShardNames(last.before)
                /\ DOMAIN dir \ {ContentBin, EigenBin}
                      = DOMAIN last.before \ {ContentBin, EigenBin}

\* A successful insert with the tags a, b, a into a database whose one shard,
\* for {a, b}, holds the records of an insert with the tags b, a.
C13_Witness ==
    /\ InsertDone
    /\ last.st = "ok"
    /\ last.tags = <<TagA, TagB, TagA>>
    /\ Len(last.batch) > 0
    /\ KnownTagSets(last.before) = {{TagA, TagB}}
    /\ Len(RecordsOf(last.before, {TagA, TagB})) > 0
    /\ KnownTagSets(dir) = {{TagA, TagB}}
    /\ Len(RecordsOf(dir, {TagA, TagB})) > Len(RecordsOf(last.before, {TagA, TagB}))

----------------------------------------------------------------------------
\* The records of all the shards index.bin lists.
AllRecords(d) == MatchingRecords(d, {})

\* C14: at any time the database is in one of two modes.
\* With eigen.bin every stored vector has the reduced dimensionality, and the
\* similarity of every result of a search is the Euclidean score of its
\* vector against the projected query; without eigen.bin every stored vector
\* has the length it was inserted with, and the similarity of every result
\* is the cosine of its vector and the query.
C14_TwoModes ==
    /\ IsProjected(dir) =>
          \A e \in AllRecords(dir) : Len(e.vector) = ReducedDim
    /\ ~IsProjected(dir) =>
          \A e \in AllRecords(dir) :
              e.id \in DOMAIN added /\ Len(e.vector) = Len(added[e.id].vector)
    /\ SearchDone =>
          \A i \in 1..Len(last.result) :
              last.result[i].similarity =
                  IF IsProjected(last.before)
                  THEN euclidean(
                           last.result[i].embedding.vector,
                           project_single_vector(
                               last.vector, last.before[EigenBin]).vector).val
                  ELSE cosine(last.result[i].embedding.vector, last.vector).val

\* A search of a projected database that returned a record inserted with two
\* components and stored with one, at a Euclidean score that is not the
\* cosine of the stored vector and the projected query.
C14_Witness ==
    /\ ~failed
    /\ SearchDone
    /\ IsProjected(dir)
    /\ Len(last.result) > 0
    /\ \E i \in 1..Len(last.result) :
          /\ Len(added[last.result[i].embedding.id].vector) = 2
          /\ Len(last.result[i].embedding.vector) = ReducedDim
          /\ last.result[i].similarity #
                cosine(last.result[i].embedding.vector,
                       project_single_vector(last.vector, last.before[EigenBin]).vector).val

----------------------------------------------------------------------------
\* Whether the sequence a is the beginning of the sequence b.
IsPrefix(a, b) == Len(a) <= Len(b) /\ SubSeq(b, 1, Len(a)) = a

\* C15: the projection is created at most once.  An operation that starts
\* with eigen.bin present and is not clear_db leaves eigen.bin as it was and
\* every stored record as it was (an insert only appends); an operation
\* that starts without eigen.bin and ends with it is an insert that ran
\* fit-and-reproject: on the wasm32 build, with its shard above the threshold.
C15_ProjectedOnce ==
    /\ (last.op \notin {"none", "clear_db"} /\ IsProjected(last.before)) =>
          /\ IsProjected(dir)
          /\ dir[EigenBin] = last.before[EigenBin]
          /\ \A tags \in KnownTagSets(last.before) :
                IsPrefix(RecordsOf(last.before, tags), RecordsOf(dir, tags))
    /\ (last.op # "none" /\ ~IsProjected(last.before) /\ IsProjected(dir)) =>
          /\ InsertDone
          /\ Wasm32(backend)
          /\ \E w \in {WriteShard(backend, last.before,
                                  [i \in 1..Len(last.batch) |->
                                     [id |-> last.first + i - 1,
                                      vector |-> last.batch[i].vector]],
                                  last.tags)} :
                w.st = "ok" /\ Len(w.dir[filename_for_tags(Range(last.tags))]) > FitThreshold
    /\ (IsProjected(last.before) /\ ~IsProjected(dir)) => last.op = "clear_db"

\* A successful insert of two records into a projected database: the shard
\* it wrote is above the threshold, and eigen.bin and the records stored
\* before are as they were.
C15_Witness ==
    /\ InsertDone
    /\ last.st = "ok"
    /\ Len(last.batch) = 2
    /\ IsProjected(last.before)
    /\ dir[EigenBin] = last.before[EigenBin]
    /\ Len(dir[filename_for_tags(Range(last.tags))]) > FitThreshold
    /\ Len(RecordsOf(last.before, Range(last.tags))) > 0
    /\ Len(RecordsOf(dir, Range(last.tags))) = Len(RecordsOf(last.before, Range(last.tags))) + 2

----------------------------------------------------------------------------
\* The shard an insert had written when write_embeddings closed its writer,
\* before any fit: its length, 0 when the write did not succeed.
WrittenShardSize ==
    LET w == WriteShard(backend, last.before,
                        [i \in 1..Len(last.batch) |->
                           [id |-> last.first + i - 1, vector |-> last.batch[i].vector]],
                        last.tags)
    IN  IF w.st = "ok" THEN Len(w.dir[filename_for_tags(Range(last.tags))]) ELSE 0

\* C16: on every backend, a successful insert that starts without eigen.bin
\* and writes its shard to a size above the threshold has run
\* fit-and-reproject when it returns: eigen.bin is present.
C16_AutoFit ==
    (InsertDone /\ last.st = "ok" /\ ~IsProjected(last.before)
        /\ WrittenShardSize > FitThreshold) =>
        IsProjected(dir)

----------------------------------------------------------------------------
\* C17: while every operation has succeeded, all the stored vectors, of all
\* the shards, have the same length.
C17_OneDimensionality ==
    ~failed =>
        \A e1, e2 \in AllRecords(dir) : Len(e1.vector) = Len(e2.vector)

----------------------------------------------------------------------------
\* C18: every result of a search carries the text that was given with its
\* vector in the insert that created its uuid.
C18_ResultText ==
    SearchDone =>
        \A i \in 1..Len(last.result) :
            /\ last.result[i].embedding.id \in DOMAIN added
            /\ last.result[i].content = added[last.result[i].embedding.id].content

\* A search over two shards that returned, with their own texts, a record of
\* the first insert and a record of a later insert into another tag-set.
C18_Witness ==
    /\ SearchDone
    /\ last.st = "ok"
    /\ Len(last.result) = 2
    /\ added[last.result[1].embedding.id].tags # added[last.result[2].embedding.id].tags
    /\ last.result[1].content # last.result[2].content
    /\ \A i \in 1..2 :
          last.result[i].content = added[last.result[i].embedding.id].content

----------------------------------------------------------------------------
\* The file names the engine opens.
EngineNames ==
    {IndexBin, ContentBin, EigenBin}
    \cup {filename_for_tags(Range(tag_list)) : tag_list \in InsertTags}

\* The directory d with the file name left out.
Without(d, name) == [n \in DOMAIN d \ {name} |-> d[n]]

\* C19: in every directory the engine reaches and for every file name it
\* uses, opening an absent name with create=false is an error and leaves the
\* directory as it was; opening an absent name with create=true adds the
\* name with no bytes and leaves the other files as they were; opening a
\* present name succeeds and leaves the directory as it was.  So a search
\* changes no file that was there, does not add eigen.bin, and leaves an
\* index.bin it had to create empty.
C19_OpenFile ==
    /\ \A name \in EngineNames :
          IF Exists(dir, name)
          THEN \A create \in BOOLEAN :
                  /\ get_file_handle_with_options(dir, name, create).ok
                  /\ get_file_handle_with_options(dir, name, create).dir = dir
          ELSE /\ ~get_file_handle_with_options(dir, name, FALSE).ok
               /\ get_file_handle_with_options(dir, name, FALSE).dir = dir
               /\ get_file_handle_with_options(dir, name, TRUE).ok
               /\ DOMAIN get_file_handle_with_options(dir, name, TRUE).dir
                     = DOMAIN dir \cup {name}
               /\ Len(get_file_handle_with_options(dir, name, TRUE).dir[name]) = 0
               /\ Without(get_file_handle_with_options(dir, name, TRUE).dir, name) = dir
    /\ SearchDone =>
          /\ \A name \in DOMAIN last.before :
                Exists(dir, name) /\ dir[name] = last.before[name]
          /\ ~IsProjected(last.before) => ~IsProjected(dir)
          /\ ~Exists(last.before, IndexBin) =>
                Exists(dir, IndexBin) /\ Len(dir[IndexBin]) = 0

\* All three cases in one insert on the native backend, into a tag-set new
\* to a database that holds records: index.bin, content.bin and the other
\* shard were present and opened (the other shard is as it was, the index
\* still lists its tag-set), the shard of the insert was absent and created,
\* and eigen.bin, absent and opened with create=false, is still absent.
C19_Witness ==
    /\ InsertDone
    /\ last.st = "ok"
    /\ backend = "native"
    /\ Exists(last.before, IndexBin)
    /\ Exists(last.before, ContentBin)
    /\ ~Exists(last.before, filename_for_tags(Range(last.tags)))
    /\ Exists(dir, filename_for_tags(Range(last.tags)))
    /\ ~Exists(last.before, EigenBin)
    /\ ~Exists(dir, EigenBin)
    /\ KnownTagSets(last.before) # {}
    /\ KnownTagSets(last.before) \subseteq KnownTagSets(dir)
    /\ \A name \in DOMAIN last.before \ {IndexBin, ContentBin} :
          Len(last.before[name]) > 0 /\ dir[name] = last.before[name]

----------------------------------------------------------------------------
\* The bytes of a shard that holds exactly the given records.
ShardBytes(records) ==
    SerU32(Len(SerEmbedding(records[1])))
    \o Flatten([i \in 1..Len(records) |-> SerEmbedding(records[i])])

\* C20: for every file of every directory the engine reaches, a writer
\* opened with keep_existing_data=false finds the file empty, and one opened
\* with keep_existing_data=true finds its bytes and length as they were,
\* with the cursor at 0.  So a shard rewritten by fit-and-reproject (writer
\* opened without the existing data) holds its records and nothing of the
\* longer file it replaces, and content.bin written by an insert (writer
\* opened with the existing data, no seek) holds the new map from its
\* first byte.
C20_OpenWriter ==
    /\ \A name \in DOMAIN dir :
          /\ Len(create_writable_with_options(dir[name], FALSE)) = 0
          /\ create_writable_with_options(dir[name], TRUE) = dir[name]
    /\ (InsertDone /\ last.st = "ok" /\ ~IsProjected(last.before) /\ IsProjected(dir)) =>
          \A tags \in KnownTagSets(dir) :
              /\ Len(RecordsOf(dir, tags)) > 0
              /\ dir[filename_for_tags(tags)] = ShardBytes(RecordsOf(dir, tags))
    /\ (InsertDone /\ last.st = "ok") =>
          /\ DeContent(dir[ContentBin]).ok
          /\ dir[ContentBin] = SerContent(DeContent(dir[ContentBin]).val)
          /\ \A i \in 1..Len(last.batch) :
                /\ (last.first + i - 1) \in DOMAIN DeContent(dir[ContentBin]).val
                /\ DeContent(dir[ContentBin]).val[last.first + i - 1]
                      = last.batch[i].content

\* An insert on the web backend that ran fit-and-reproject: a shard that held
\* records before is shorter than it was, and content.bin, which held a map
\* before, is longer and holds the texts of the insert.
C20_Witness ==
    /\ InsertDone
    /\ last.st = "ok"
    /\ backend = "web"
    /\ ~IsProjected(last.before)
    /\ IsProjected(dir)
    /\ \E tags \in KnownTagSets(last.before) :
          /\ Len(RecordsOf(last.before, tags)) > 0
          /\ Len(dir[filename_for_tags(tags)]) < Len(last.before[filename_for_tags(tags)])
          /\ dir[filename_for_tags(tags)] = ShardBytes(RecordsOf(dir, tags))
    /\ Exists(last.before, ContentBin)
    /\ Len(last.before[ContentBin]) > 0
    /\ Len(dir[ContentBin]) > Len(last.before[ContentBin])
    /\ DeContent(dir[ContentBin]).val[last.first] = last.batch[1].content

----------------------------------------------------------------------------
\* C21: on the in-memory backend a seek to an offset within the current
\* length of the file succeeds and leaves the cursor of its writer at the
\* offset; a seek beyond the length returns an error and leaves the cursor,
\* the file and every other object as they were.
C21_MemorySeek ==
    call.op = "seek" =>
        /\ streams = call.streams
        /\ entries = call.entries
        /\ \A h \in DOMAIN handles : h # call.h => handles[h] = call.handles[h]
        /\ IF call.offset <= Len(call.streams[call.handles[call.h].stream])
           THEN /\ call.st = "ok"
                /\ handles[call.h] = [call.handles[call.h] EXCEPT !.cursor_pos = call.offset]
           ELSE /\ call.st = "err"
                /\ handles[call.h] = call.handles[call.h]

\* A refused seek one byte beyond the end of a file that holds bytes, by a
\* writer whose cursor an earlier write or seek had moved.
C21_Witness ==
    /\ call.op = "seek"
    /\ call.st = "err"
    /\ Len(streams[handles[call.h].stream]) > 0
    /\ call.offset = Len(streams[handles[call.h].stream]) + 1
    /\ handles[call.h].cursor_pos > 0

----------------------------------------------------------------------------
\* Whether the handle was obtained for the entry the directory now has
\* under the handle's name.
Current(handle) ==
    Exists(entries, handle.entry[1]) /\ handle.entry[2] = epoch[handle.entry[1]]

\* C22: in the in-memory backend the handles and writers obtained for one
\* directory entry hold one buffer, which is the buffer of that entry while
\* the entry is in the directory, and those obtained for different entries
\* (another name, or the same name after a removal) hold different buffers.
\* So a write through a writer changes what every handle of its entry reads
\* and no other buffer, a read returns the bytes and the size of the entry's
\* buffer as the writers left it, and a file created anew after a removal
\* is empty while the handles from before the removal keep their bytes.
C22_SharedBuffer ==
    /\ \A h1, h2 \in DOMAIN handles :
          (handles[h1].entry = handles[h2].entry)
              <=> (handles[h1].stream = handles[h2].stream)
    /\ \A h \in DOMAIN handles :
          Current(handles[h]) => handles[h].stream = entries[handles[h].entry[1]]
    /\ (call.op = "write" /\ call.st = "ok") =>
          /\ \A h \in DOMAIN handles :
                handles[h].entry = handles[call.h].entry =>
                    streams[handles[h].stream] =
                        SubSeq(call.streams[handles[call.h].stream], 1,
                               call.handles[call.h].cursor_pos) \o call.data
          /\ \A s \in DOMAIN streams :
                s # handles[call.h].stream => streams[s] = call.streams[s]
    /\ call.op = "read" =>
          /\ call.result = streams[handles[call.h].stream]
          /\ call.size = Len(streams[handles[call.h].stream])
          /\ Current(handles[call.h]) => call.result = View[call.name]
    /\ (call.op = "open" /\ call.st = "ok" /\ ~Exists(call.entries, call.name)) =>
          /\ Len(streams[handles[call.h].stream]) = 0
          /\ \A h \in DOMAIN handles :
                h # call.h => handles[h].stream # handles[call.h].stream
          /\ streams = Append(call.streams, <<>>)

\* A read through a handle of a file created anew after a removal returned
\* no bytes, while a handle from before the removal reads the bytes written
\* through its writer.
C22_Witness ==
    /\ call.op = "read"
    /\ call.result = <<>>
    /\ handles[call.h].entry[2] = 1
    /\ \E h1, h2 \in DOMAIN handles :
          /\ handles[h1].kind = "file"
          /\ handles[h2].kind = "writer"
          /\ handles[h1].entry = <<call.name, 0>>
          /\ handles[h2].entry = <<call.name, 0>>
          /\ handles[h2].cursor_pos = Len(streams[handles[h1].stream])
          /\ Len(streams[handles[h1].stream]) > 0

----------------------------------------------------------------------------
\* The files clear_db removes after the shards.
FixedNames == {IndexBin, ContentBin, EigenBin}

\* C23: a storage failure is passed on to the caller: a clear_db that found
\* index.bin, content.bin or eigen.bin in the directory and could not remove
\* it (the file is still there) does not return Ok.
C23_ClearSurfacesFailure ==
    (last.op = "clear_db"
        /\ \E name \in FixedNames : Exists(last.before, name) /\ Exists(dir, name)) =>
        last.st # "ok"

----------------------------------------------------------------------------
\* C24: clear_db absorbs not-found: in a directory whose index lists a
\* tag-set without a shard file, a clear_db whose removals the storage does
\* not refuse returns Ok and leaves no file.
C24_NotFoundAbsorbed ==
    (last.op = "clear_db" /\ last.broken = {}
        /\ \E tags \in KnownTagSets(last.before) :
              ~Exists(last.before, filename_for_tags(tags))) =>
        /\ last.st = "ok"
        /\ DOMAIN dir = {}

----------------------------------------------------------------------------
\* Whether the shard of a tag-set ends in a torn record: it has its header
\* and the bytes behind it are not a whole number of records.
Torn(d, tags) ==
    /\ Exists(d, filename_for_tags(tags))
    /\ Len(d[filename_for_tags(tags)]) >= 4
    /\ LeValue(SubSeq(d[filename_for_tags(tags)], 1, 4)) > 0
    /\ (Len(d[filename_for_tags(tags)]) - 4)
          % LeValue(SubSeq(d[filename_for_tags(tags)], 1, 4)) # 0

\* C25: an operation that opens a shard with a torn trailing record reports
\* it and leaves the shard as it was: a search over a matching tag-set and
\* an insert into the tag-set of the shard do not succeed.
C25_TornDetected ==
    /\ (SearchDone
          /\ \E tags \in KnownTagSets(last.before) :
                Range(last.tags) \subseteq tags /\ Torn(last.before, tags)) =>
          last.st # "ok"
    /\ (InsertDone /\ last.st # "cancelled" /\ Torn(last.before, Range(last.tags))) =>
          /\ last.st # "ok"
          /\ dir[filename_for_tags(Range(last.tags))]
                = last.before[filename_for_tags(Range(last.tags))]

----------------------------------------------------------------------------
(* The codec (CodecSpec). *)

Constant(v) == \A i, j \in DOMAIN v : v[i] = v[j]

Finite(v) == \A i \in DOMAIN v : v[i][2] # 0

\* C26: for every constant-valued vector v of any length, unpack(pack(v))
\* equals v, and pack stores byte 0 for every element.
C26_ConstantRoundTrip ==
    (Constant(codec.vector) /\ codec.unpacked # <<>>)
        => /\ VecEq(codec.unpacked[1], codec.vector)
           /\ \A i \in DOMAIN codec.vector : codec.packed[1].data[i] = 0

\* The vectors C26 fails on: for an infinite value max - min is inf - inf, a
\* NaN, and so is every unpacked element.  The bytes are 0 all the same.
C26_Failing ==
    /\ Constant(codec.vector)
    /\ codec.vector # <<>>
    /\ ~Finite(codec.vector)
    /\ codec.unpacked # <<>>
    /\ \A i \in DOMAIN codec.vector :
        IsNaN(codec.unpacked[1][i]) /\ codec.packed[1].data[i] = 0

\* C27: for every vector v, unpack(pack(unpack(pack(v)))) = unpack(pack(v)),
\* the re-pack recovering the same min, max and bytes.
C27_FixedPoint ==
    Len(codec.unpacked) = 2
        => /\ VecEq(codec.unpacked[2], codec.unpacked[1])
           /\ codec.packed[2] = codec.packed[1]

\* The vectors C27 fails on: with an infinite element every unpacked element
\* is a NaN, and the re-pack of NaNs finds min = +infinity, max = -infinity.
C27_Failing ==
    /\ Len(codec.unpacked) = 2
    /\ Finite(<<codec.vector[1]>>)
    /\ ~Finite(codec.vector)
    /\ \A i \in DOMAIN codec.vector : IsNaN(codec.unpacked[1][i])
    /\ codec.packed[1].min = codec.vector[1]
    /\ codec.packed[2].min = INFINITY
    /\ codec.packed[2].max = NEG_INFINITY

----------------------------------------------------------------------------
(* Ordering of the index and the shards (FaultSpec: the directory after a   *)
(* cancelled insert is the directory at one of its storage steps).          *)

\* C28: at every storage step of an insert or a clear, every shard file in
\* the directory is the shard of a tag-set that index.bin lists (the index
\* is rewritten before the shard of a new tag-set is created).
C28_ShardsListed ==
    \A name \in DOMAIN dir \ FixedNames : name \in ShardNames(dir)

----------------------------------------------------------------------------
(* The life of an embedding. *)

\* The uuids of the records of a shard, in file order.
IdsOf(d, tags) == [i \in 1..Len(RecordsOf(d, tags)) |-> RecordsOf(d, tags)[i].id]

\* The uuids of the records of every shard of d.
StoredIds(d) == [tags \in KnownTagSets(d) |-> IdsOf(d, tags)]

\* Every uuid of ids is an uuid an insert with that tag-set has assigned and
\* is at one place only.
OncePlaced(ids) ==
    \A tags \in DOMAIN ids : \A i \in DOMAIN ids[tags] :
        /\ ids[tags][i] \in DOMAIN added
        /\ added[ids[tags][i]].tags = tags
        /\ \A s \in DOMAIN ids : \A j \in DOMAIN ids[s] :
              ids[s][j] = ids[tags][i] => (s = tags /\ j = i)

\* C29: between two clears every uuid an insert has stored is in exactly one
\* shard, the shard of the tag-set it was inserted with, exactly once; a
\* successful insert stores every uuid of its batch and makes its shard
\* longer by exactly the batch, leaving the other shards as long as they were;
\* and no insert, search or fit-and-reproject takes a record out of a shard
\* or moves it.
C29_Lifecycle ==
    LET now == StoredIds(dir)
        was == StoredIds(last.before)
    IN  /\ OncePlaced(now)
        /\ (InsertDone /\ last.st = "ok") =>
              /\ Range(last.tags) \in DOMAIN now
              /\ InsertedIds \subseteq Range(now[Range(last.tags)])
              /\ \A tags \in DOMAIN now :
                    Len(now[tags]) =
                        (IF tags \in DOMAIN was THEN Len(was[tags]) ELSE 0)
                        + (IF tags = Range(last.tags) THEN Len(last.batch) ELSE 0)
        /\ (last.op \notin {"none", "clear_db"}) =>
              \A tags \in DOMAIN was :
                  tags \in DOMAIN now /\ IsPrefix(was[tags], now[tags])

\* An insert of two records into a shard that held records of an earlier
\* insert has succeeded and has run fit-and-reproject: every record is kept.
C29_Witness ==
    /\ InsertDone
    /\ last.st = "ok"
    /\ Len(last.batch) = 2
    /\ ~IsProjected(last.before)
    /\ IsProjected(dir)
    /\ Len(IdsOf(last.before, Range(last.tags))) > 0
    /\ Len(IdsOf(dir, Range(last.tags))) = Len(IdsOf(last.before, Range(last.tags))) + 2
    /\ IsPrefix(IdsOf(last.before, Range(last.tags)), IdsOf(dir, Range(last.tags)))

----------------------------------------------------------------------------
(* Fit-and-reproject and the stored projection. *)

\* What an insert after the fit stores for the vector: its projection by
\* eigen.bin, through the codec.
StoredAfterFit(d, vector) ==
    unpack(pack(project_single_vector(vector, d[EigenBin]).vector))

\* C30: fit-and-reproject stores, for every vector of every shard, its
\* projection by the map persisted in eigen.bin, (x - mu) * E with the means
\* mu of the whole training set: when an insert has run fit-and-reproject,
\* every record holds what an insert of the same vector after the fit would
\* store, which is also how a query is projected.
C30_SameMap ==
    (InsertDone /\ last.st = "ok" /\ ~IsProjected(last.before) /\ IsProjected(dir)) =>
        \A e \in AllRecords(dir) :
            e.vector = StoredAfterFit(dir, added[e.id].vector)

----------------------------------------------------------------------------
(* content.bin. *)

\* The map content.bin of d holds: [ok, val]; no file and an empty file are
\* the empty map.
ContentOf(d) ==
    IF ~Exists(d, ContentBin) THEN [ok |-> TRUE, val |-> <<>>]
    ELSE IF Len(d[ContentBin]) = 0 THEN [ok |-> TRUE, val |-> <<>>]
    ELSE DeContent(d[ContentBin])

\* The (uuid -> text) entries of the batch of the last insert.
BatchEntries ==
    [u \in InsertedIds |-> last.batch[u - last.first + 1].content]

\* C31: content.bin always deserializes; after a successful insert it holds
\* the map it held before plus one entry per item of the batch, and no
\* operation other than clear_db loses or changes an entry.
C31_ContentMerge ==
    /\ ContentOf(dir).ok
    /\ (InsertDone /\ last.st = "ok") =>
          /\ DOMAIN ContentOf(dir).val = DOMAIN ContentOf(last.before).val \cup InsertedIds
          /\ \A u \in InsertedIds : ContentOf(dir).val[u] = BatchEntries[u]
    /\ (last.op \notin {"none", "clear_db"}) =>
          \A u \in DOMAIN ContentOf(last.before).val :
              /\ u \in DOMAIN ContentOf(dir).val
              /\ ContentOf(dir).val[u] = ContentOf(last.before).val[u]

\* A second insert has succeeded on a database whose content.bin held the
\* entries of a first: content.bin holds the entries of both.
C31_Witness ==
    /\ InsertDone
    /\ last.st = "ok"
    /\ Len(last.batch) = 2
    /\ DOMAIN ContentOf(last.before).val # {}
    /\ Cardinality(DOMAIN ContentOf(dir).val) = Cardinality(DOMAIN ContentOf(last.before).val) + 2
    /\ Len(dir[ContentBin]) > Len(last.before[ContentBin])

----------------------------------------------------------------------------
(* Vector lengths in projected mode. *)

\* The dimensionality the projection of d was fitted on: the number of means
\* of eigen.bin.
OriginalDim(d) == Len(DeProjection(d[EigenBin]).means)

\* C32: in projected mode an insert of a vector whose length is not the
\* dimensionality the projection was fitted on, shorter or longer, ends in a
\* fatal error, and no shard is changed by it.
C32_LengthInProjectedMode ==
    (/\ InsertDone
     /\ IsProjected(last.before)
     /\ DeProjection(last.before[EigenBin]).ok
     /\ \E i \in 1..Len(last.batch) :
           Len(last.batch[i].vector) # OriginalDim(last.before)) =>
        /\ last.st # "ok"
        /\ \A tags \in KnownTagSets(dir) :
              RecordsOf(dir, tags) = RecordsOf(last.before, tags)

\* The case C32 fails on: a batch of longer vectors is stored in projected
\* mode.
C32_LongerStored ==
    /\ InsertDone
    /\ last.st = "ok"
    /\ IsProjected(last.before)
    /\ \A i \in 1..Len(last.batch) :
          Len(last.batch[i].vector) > OriginalDim(last.before)
    /\ InsertedIds \subseteq {e.id : e \in AllRecords(dir)}

----------------------------------------------------------------------------
(* What an operation leaves alone. *)

\* The cells of a file of d, none when the file is absent.
CellsOf(d, name) == IF Exists(d, name) THEN d[name] ELSE <<>>

\* The last operation ran fit-and-reproject: it made eigen.bin.
Triggered == ~IsProjected(last.before) /\ IsProjected(dir)

\* The shard of the last insert.
OwnShard == filename_for_tags(Range(last.tags))

\* C33: a successful insert with tag-set T that does not run
\* fit-and-reproject appends to the shard of T, whose earlier bytes stay as
\* they were, and otherwise changes content.bin only, and index.bin when T is
\* new to the index: every other file is byte-identical and no other file
\* appears or disappears.
C33_InsertFrame ==
    (InsertDone /\ last.st = "ok" /\ ~Triggered) =>
        /\ Exists(dir, OwnShard)
        /\ IsPrefix(CellsOf(last.before, OwnShard), dir[OwnShard])
        /\ Len(dir[OwnShard]) > Len(CellsOf(last.before, OwnShard))
        /\ DOMAIN dir = DOMAIN last.before \cup {IndexBin, ContentBin, OwnShard}
        /\ \A name \in DOMAIN last.before \ {IndexBin, ContentBin, OwnShard} :
              dir[name] = last.before[name]
        /\ Range(last.tags) \in KnownTagSets(last.before) =>
              dir[IndexBin] = last.before[IndexBin]

\* A successful insert without a fit into a shard that held records: its
\* tag-set was known and index.bin is as it was.
C33_Witness ==
    /\ InsertDone
    /\ last.st = "ok"
    /\ ~Triggered
    /\ Range(last.tags) \in KnownTagSets(last.before)
    /\ Len(CellsOf(last.before, OwnShard)) > 4
    /\ Len(dir[OwnShard]) > Len(last.before[OwnShard])
    /\ dir[IndexBin] = last.before[IndexBin]

\* C34: search_embedding, whether it returns or panics, leaves every file
\* of the directory byte-identical and removes none; in a database no
\* operation of which has failed the only file it can add is index.bin, empty,
\* when there was none, so that the index lists what it listed.
C34_SearchReadOnly ==
    SearchDone =>
        /\ \A name \in DOMAIN last.before :
              Exists(dir, name) /\ dir[name] = last.before[name]
        /\ KnownTagSets(dir) = KnownTagSets(last.before)
        /\ last.clean =>
              /\ DOMAIN dir = DOMAIN last.before \cup {IndexBin}
              /\ dir[IndexBin] = CellsOf(last.before, IndexBin)

\* A search has returned results from a database with records in which no
\* operation has failed: the directory is as it was.
C34_Witness ==
    /\ SearchDone
    /\ last.clean
    /\ last.st = "ok"
    /\ last.result # <<>>
    /\ Exists(last.before, ContentBin)
    /\ dir = last.before

\* C35: an insert that fails a structural check (its batch is empty, its
\* vectors differ in length among themselves or from those of its shard)
\* leaves the directory exactly as it was: no index entry, no shard, no
\* content entry is added.
C35_FailedInsertFrame ==
    (InsertDone /\ last.st # "ok" /\ (last.batch = <<>> \/ MixesLengths)) =>
        dir = last.before

\* The case C35 fails on: the failed insert has listed its tag-set and
\* created the shard, with no byte in it.
C35_ShardLeft ==
    /\ InsertDone
    /\ last.st # "ok"
    /\ (last.batch = <<>> \/ MixesLengths)
    /\ Range(last.tags) \notin KnownTagSets(last.before)
    /\ Range(last.tags) \in KnownTagSets(dir)
    /\ ~Exists(last.before, OwnShard)
    /\ dir[OwnShard] = <<>>

----------------------------------------------------------------------------
(* A write of the in-memory backend.                                        *)

\* The buffer the writer of the last call writes to, before and after.
WrittenBefore == call.streams[call.handles[call.h].stream]

WrittenAfter == streams[handles[call.h].stream]

CursorBefore == call.handles[call.h].cursor_pos

\* C36: in the in-memory backend a write of n bytes by a writer whose cursor
\* c is at most the length of the file leaves the file equal to its first c
\* bytes followed by the written bytes: the length and the cursor are c + n,
\* the first c bytes are as they were, no byte that was at or after c is
\* left, whichever keep_existing_data the writer was created with, and no
\* other buffer, handle or directory entry changes.
C36_MemoryWrite ==
    (call.op = "write" /\ CursorBefore <= Len(WrittenBefore)) =>
        /\ call.st = "ok"
        /\ WrittenAfter = Slice(WrittenBefore, 1, CursorBefore) \o call.data
        /\ Len(WrittenAfter) = CursorBefore + Len(call.data)
        /\ handles[call.h].cursor_pos = CursorBefore + Len(call.data)
        /\ \A i \in 1..CursorBefore : WrittenAfter[i] = WrittenBefore[i]
        /\ \A s \in DOMAIN streams :
              s # handles[call.h].stream => streams[s] = call.streams[s]
        /\ \A h \in DOMAIN handles :
              handles[h] = [call.handles[h] EXCEPT !.cursor_pos =
                               IF h = call.h THEN CursorBefore + Len(call.data) ELSE @]
        /\ entries = call.entries

\* A writer created with keep_existing_data = true writes fewer bytes than
\* the file holds after its cursor, and the file becomes shorter.
C36_Witness ==
    /\ call.op = "write"
    /\ call.st = "ok"
    /\ call.handles[call.h].keep
    /\ CursorBefore + Len(call.data) < Len(WrittenBefore)
    /\ Len(WrittenAfter) < Len(WrittenBefore)

----------------------------------------------------------------------------
(* The engine on the in-memory backend and on the native one.               *)

\* The backends whose writes differ: memory.rs cuts the file at the cursor
\* and appends, native.rs overwrites in place and keeps what lies beyond.
Cutting == "memory"

InPlace == "native"

\* What the operation of last ends in, started from the same directory with
\* the same arguments on backend b: the set of [st, dir].
OutcomesOn(b) ==
    IF InsertDone
    THEN add_embedding_many(b, last.before, last.batch, last.tags, last.first)
    ELSE IF last.op = "clear_db" THEN clear_db(b, last.before)
    ELSE {[st |-> last.st, dir |-> dir]}

\* The records and the texts of the insert of last, as add_embedding_many
\* hands them to write_embeddings and write_contents.
GivenEmbeddings ==
    [i \in 1..Len(last.batch) |-> [id |-> last.first + i - 1, vector |-> last.batch[i].vector]]

GivenContents ==
    [i \in 1..Len(last.batch) |-> [id |-> last.first + i - 1, content |-> last.batch[i].content]]

\* The insert of last up to the closing of the shard writer, on backend b.
ShardWritten(b) == WriteShard(b, last.before, GivenEmbeddings, last.tags)

\* The stages of the insert of last end the same on both backends: the
\* index and shard writes, fit-and-reproject where the build runs it, and
\* the content write after every way write_embeddings may have ended.
SameStages ==
    /\ ShardWritten(Cutting) = ShardWritten(InPlace)
    /\ [ShardWritten(backend) EXCEPT !.fit = FALSE] = ShardWritten(Cutting)
    /\ ShardWritten(backend).fit =>
          project_embeddings(Cutting, ShardWritten(backend).dir)
              = project_embeddings(InPlace, ShardWritten(backend).dir)
    /\ \A w \in write_embeddings(backend, last.before, GivenEmbeddings, last.tags) :
          w.st = "ok" => write_contents(Cutting, w.dir, GivenContents)
                             = write_contents(InPlace, w.dir, GivenContents)

\* C37: whatever sequence of public operations has led to a directory, the
\* next operation ends in the same result and the same index, shard,
\* content and projection files, byte for byte, with writes that cut the
\* file at the cursor (memory.rs) and with writes that overwrite in place
\* (native.rs); and content.bin, which is rewritten from offset 0 by a
\* writer that keeps the existing data, never gets shorter except by
\* clear_db.
C37_BackendEquivalence ==
    ~Idle =>
        /\ InsertDone => SameStages
        /\ last.op = "clear_db" => clear_db(Cutting, last.before) = clear_db(InPlace, last.before)
        /\ backend \in {Cutting, InPlace} =>
              /\ OutcomesOn(Cutting) = OutcomesOn(InPlace)
              /\ [st |-> last.st, dir |-> dir] \in OutcomesOn(Cutting)
        /\ last.op # "clear_db" =>
              Len(CellsOf(dir, ContentBin)) >= Len(CellsOf(last.before, ContentBin))

\* A successful insert on the native backend into a database that holds a
\* shard of the same tag-set and a content.bin with entries: the shard
\* writer is moved to the end of the file, content.bin is written from
\* offset 0 over what it held.
C37_Witness ==
    /\ backend = InPlace
    /\ InsertDone
    /\ last.st = "ok"
    /\ Len(CellsOf(last.before, ContentBin)) > 0
    /\ Len(CellsOf(last.before, OwnShard)) > 0
    /\ Len(dir[OwnShard]) > Len(last.before[OwnShard])
    /\ Len(dir[ContentBin]) > Len(last.before[ContentBin])

----------------------------------------------------------------------------
(* The order of the writes of one insert.                                   *)

\* What the insert of last has written.
ShardChanged == CellsOf(dir, OwnShard) # CellsOf(last.before, OwnShard)

ContentChanged == CellsOf(dir, ContentBin) # CellsOf(last.before, ContentBin)

\* The uuids of the batch that the shard of the insert holds.
BatchInShard == {u \in InsertedIds : \E i \in DOMAIN IdsOf(dir, Range(last.tags)) :
                                        IdsOf(dir, Range(last.tags))[i] = u}

\* C38: within one insert the index entry is persisted first, then the
\* records are appended to the shard, then fit-and-reproject runs if it is
\* due, and content.bin is rewritten last: wherever the insert has stopped,
\* a shard that has changed is listed in index.bin, eigen.bin is made only
\* after the shard has changed, content.bin has changed only when the
\* shard has and the insert has run to its end, and an insert that has not
\* run to its end has left no uuid of its batch in content.bin, not even
\* those its shard holds.
C38_WriteOrder ==
    InsertDone =>
        /\ ShardChanged => Range(last.tags) \in KnownTagSets(dir)
        /\ Triggered => ShardChanged
        /\ ContentChanged => (ShardChanged /\ last.st = "ok")
        /\ last.st # "ok" =>
              /\ ContentOf(dir).ok
              /\ InsertedIds \cap DOMAIN ContentOf(dir).val = {}

\* An insert into a database with entries in content.bin has stopped after
\* the shard writer was closed: the shard holds every uuid of the batch and
\* content.bin none of them.
C38_Witness ==
    /\ InsertDone
    /\ last.st = "cancelled"
    /\ InsertedIds # {}
    /\ BatchInShard = InsertedIds
    /\ DOMAIN ContentOf(last.before).val # {}
    /\ InsertedIds \cap DOMAIN ContentOf(dir).val = {}

====
